---- MODULE Spec2Model ----
(***************************************************************************)
(* A model of the Hashi puzzle core (src/src/hashi.rs) and of the way the  *)
(* game component (src/src/components/game.rs) drives it: the BridgeLine   *)
(* geometry, the HashiGrid validators, the seeded generator taken one loop *)
(* iteration at a time, wipe_bridges, and the player's add_bridge calls    *)
(* and bridge-removal clicks.                                              *)
(***************************************************************************)
EXTENDS Integers, Sequences, FiniteSets, TLC

(***************************************************************************)
(* Bounds of the model.                                                    *)
(***************************************************************************)
\* Largest width and height handed to the generator (0 is always included).
MaxWidth == 3
MaxHeight == 3
\* The growth loop's iteration budget (num_islands * 100 in the source) is
\* capped at MaxAttempts iterations.
\* The cap on the growth iterations where the growth loop is followed alone.
MaxGrowAttempts == 8

MaxAttempts == 4
\* The game component is followed into play on grids of at most this many
\* cells.
MaxPlayCells == 4
\* The grid built call by call holds at most this many islands.
MaxApiIslands == 4
\* Seeds tried by the seeded specification.
\* The largest coordinate of the positions the BridgeLine unit tests pass.
MaxCoord == 2

MaxSeed == 3
\* The game component with its selection, timer and timeouts is followed
\* on grids of at most this many cells.
MaxUICells == 3
\* The timer of the game component is followed up to this many seconds.
MaxTime == 2
\* At most this many shudder timeouts are pending at once.
MaxPending == 1
\* The island layouts main.rs is followed on hold at most this many
\* islands, requiring at most this many bridges each.
MaxMainIslands == 4
MaxRequired == 2

(***************************************************************************)
(* Program constants.                                                      *)
(***************************************************************************)
\* u8: Position.x, Position.y, width, height, required_bridges, num_islands.
U8Modulus == 256
\* The largest width and height a u8 holds.
MaxDim == 255
\* num_islands = max(MinIslands, width * height / CellsPerIsland)
MinIslands == 8
CellsPerIsland == 5
\* max_remaining_iterations = num_islands * AttemptsPerIsland
AttemptsPerIsland == 100
\* chance_of_loop = 0.6 and the doubling probability 0.3, in tenths.
ChanceOfLoop == 6
ChanceOfDouble == 3

(***************************************************************************)
(* State.                                                                  *)
(***************************************************************************)
VARIABLES
    pc,         \* where the caller is: "call", "grow", "loops", "select",
                \* "finalize", "returned" (in generate_with_seed and after
                \* it), "play" (the game component holds the wiped grid),
                \* "api" (a grid built by add_island and add_bridge calls)
    width,      \* HashiGrid.width (the argument of generate while pc = "call")
    height,     \* HashiGrid.height
    islands,    \* HashiGrid.islands: position -> required_bridges
    bridges,    \* HashiGrid.bridges: line -> "Single" | "Double"
    num_islands,                \* _generate's local
    max_remaining_iterations,   \* _generate's local
    island_positions,   \* the loop-edge pass's snapshot of the island keys
    loop_i,             \* index of the island the loop-edge pass is at
    loop_d,             \* index of the direction the loop-edge pass is at
    to_double,          \* bridge_lines_to_double, while it is collected
    double_i,           \* index of the bridge the doubling filter is at
    result,     \* what the last call returned
    last,       \* the name of the last call made on the grid
    seed,       \* the seed of generate_with_seed
    rng,        \* the state of the seeded stream
    run,        \* which call of generate_with_seed this is (1 or 2)
    first,      \* the grid the first call returned, kept by the caller
    solution,   \* the generated bridge map, before wipe_bridges
    args,       \* the positions a unit test of BridgeLine passes
    made,       \* what BridgeLine::new returned for them
    answer,     \* what intersects and crosses returned
    selected,           \* GameState.selected (NoPos for None)
    shuddered_island,   \* GameState.shuddered_island (NoPos for None)
    time_elapsed,       \* GameState.time_elapsed
    timeouts,   \* the shudder timeouts not yet fired, each with the state
                \* its handle holds
    main_islands,           \* main.rs GameState.grid.islands
    main_bridges,           \* main.rs GameState.bridges: (a, b) -> count
    main_selected,          \* main.rs GameState.selected (NoId for None)
    main_shuddered_island   \* main.rs GameState.shuddered_island

gen_locals == <<num_islands, max_remaining_iterations, island_positions,
                loop_i, loop_d, to_double, double_i>>
grid_vars == <<width, height, islands, bridges>>
caller_vars == <<seed, run, first, solution>>
vars == <<pc, width, height, islands, bridges, num_islands,
          max_remaining_iterations, island_positions, loop_i, loop_d,
          to_double, double_i, result, last, seed, rng, run, first, solution,
          args, made, answer, selected, shuddered_island, time_elapsed,
          timeouts, main_islands, main_bridges, main_selected,
          main_shuddered_island>>
unit_vars == <<args, made, answer>>
ui_vars == <<selected, shuddered_island, time_elapsed, timeouts>>
main_vars == <<main_islands, main_bridges, main_selected,
               main_shuddered_island>>

(***************************************************************************)
(* Position, with the derived Ord: x first, then y.                        *)
(***************************************************************************)
Pos(x, y) == [x |-> x, y |-> y]

\* No position: the position field of a result that names none.
NoPos == [x |-> -1, y |-> -1]

PosLess(a, b) == a.x < b.x \/ (a.x = b.x /\ a.y < b.y)

(***************************************************************************)
(* Results.  Every result is a record of the same shape:                   *)
(*   tag      "Ok" | "Err" | "Panic"                                       *)
(*   kind     the Ok value ("Unit", "Single", "Double") or the HashiError  *)
(*            variant                                                      *)
(*   position the position the error names                                 *)
(*   cause    which check of the validator produced the error              *)
(***************************************************************************)
Ok(v) == [tag |-> "Ok", kind |-> v, position |-> NoPos, cause |-> "none"]
Err(k, p, c) == [tag |-> "Err", kind |-> k, position |-> p, cause |-> c]
Panic(c) == [tag |-> "Panic", kind |-> "panic", position |-> NoPos, cause |-> c]
NoResult == [tag |-> "None", kind |-> "none", position |-> NoPos, cause |-> "none"]

(***************************************************************************)
(* BridgeLine                                                              *)
(***************************************************************************)
Line(s, e, d) == [start |-> s, end |-> e, direction |-> d]

NoLine == Line(NoPos, NoPos, "Down")

\* new keeping the argument order.
BridgeLineNewUnordered(start, end) ==
    IF start.x # end.x /\ start.y # end.y
    THEN [res |-> Err("DiagonalBridge", NoPos, "diagonal"), line |-> NoLine]
    ELSE IF start = end
    THEN [res |-> Err("BridgeLengthZero", NoPos, "zero"), line |-> NoLine]
    ELSE IF start.x = end.x
    THEN [res |-> Ok("Unit"), line |-> Line(start, end, "Down")]
    ELSE [res |-> Ok("Unit"), line |-> Line(start, end, "Right")]

\* new with the two directions exchanged.
BridgeLineNewSwappedDirections(start, end) ==
    IF start.x # end.x /\ start.y # end.y
    THEN [res |-> Err("DiagonalBridge", NoPos, "diagonal"), line |-> NoLine]
    ELSE IF start = end
    THEN [res |-> Err("BridgeLengthZero", NoPos, "zero"), line |-> NoLine]
    ELSE IF start.x = end.x
    THEN IF start.y > end.y
         THEN [res |-> Ok("Unit"), line |-> Line(end, start, "Right")]
         ELSE [res |-> Ok("Unit"), line |-> Line(start, end, "Right")]
    ELSE IF start.x > end.x
         THEN [res |-> Ok("Unit"), line |-> Line(end, start, "Down")]
         ELSE [res |-> Ok("Unit"), line |-> Line(start, end, "Down")]

\* BridgeLine::new: [res |-> result, line |-> the line when res is Ok].
BridgeLineNew(start, end) ==
    IF start.x # end.x /\ start.y # end.y
    THEN [res |-> Err("DiagonalBridge", NoPos, "diagonal"), line |-> NoLine]
    ELSE IF start = end
    THEN [res |-> Err("BridgeLengthZero", NoPos, "zero"), line |-> NoLine]
    ELSE IF start.x = end.x
    THEN IF start.y > end.y
         THEN [res |-> Ok("Unit"), line |-> Line(end, start, "Down")]
         ELSE [res |-> Ok("Unit"), line |-> Line(start, end, "Down")]
    ELSE IF start.x > end.x
         THEN [res |-> Ok("Unit"), line |-> Line(end, start, "Right")]
         ELSE [res |-> Ok("Unit"), line |-> Line(start, end, "Right")]

\* The derived Ord of BridgeLine: start, then end, then direction (Down < Right).
LineLess(a, b) ==
    \/ PosLess(a.start, b.start)
    \/ a.start = b.start /\ PosLess(a.end, b.end)
    \/ a.start = b.start /\ a.end = b.end
       /\ a.direction = "Down" /\ b.direction = "Right"

\* intersects with strict comparisons: a line ending on the other line's
\* segment is not reported.
IntersectsStrict(self, other) ==
    IF self.direction = other.direction THEN NoPos
    ELSE LET vert == IF self.direction = "Down" THEN self ELSE other
             horiz == IF self.direction = "Down" THEN other ELSE self
         IN IF \/ horiz.start = vert.start
               \/ horiz.start = vert.end
               \/ horiz.end = vert.start
               \/ horiz.end = vert.end
            THEN NoPos
            ELSE IF /\ horiz.start.y > vert.start.y
                    /\ horiz.start.y < vert.end.y
                    /\ vert.start.x > horiz.start.x
                    /\ vert.start.x < horiz.end.x
                 THEN Pos(vert.start.x, horiz.start.y)
                 ELSE NoPos

\* intersects with the lower end of the vertical range mistyped as its
\* upper end.
IntersectsAtEndOnly(self, other) ==
    IF self.direction = other.direction THEN NoPos
    ELSE LET vert == IF self.direction = "Down" THEN self ELSE other
             horiz == IF self.direction = "Down" THEN other ELSE self
         IN IF \/ horiz.start = vert.start
               \/ horiz.start = vert.end
               \/ horiz.end = vert.start
               \/ horiz.end = vert.end
            THEN NoPos
            ELSE IF /\ horiz.start.y >= vert.end.y
                    /\ horiz.start.y <= vert.end.y
                    /\ vert.start.x >= horiz.start.x
                    /\ vert.start.x <= horiz.end.x
                 THEN Pos(vert.start.x, horiz.start.y)
                 ELSE NoPos

\* BridgeLine::intersects: the crossing point, or NoPos for None.
Intersects(self, other) ==
    IF self.direction = other.direction THEN NoPos
    ELSE LET vert == IF self.direction = "Down" THEN self ELSE other
             horiz == IF self.direction = "Down" THEN other ELSE self
         IN IF \/ horiz.start = vert.start
               \/ horiz.start = vert.end
               \/ horiz.end = vert.start
               \/ horiz.end = vert.end
            THEN NoPos
            ELSE IF /\ horiz.start.y >= vert.start.y
                    /\ horiz.start.y <= vert.end.y
                    /\ vert.start.x >= horiz.start.x
                    /\ vert.start.x <= horiz.end.x
                 THEN Pos(vert.start.x, horiz.start.y)
                 ELSE NoPos

Min(a, b) == IF a < b THEN a ELSE b
Max(a, b) == IF a > b THEN a ELSE b

\* crosses leaving out the two endpoints.
CrossesStrict(self, position) ==
    \/ /\ self.start.x = self.end.x
       /\ position.x = self.start.x
       /\ position.y > Min(self.start.y, self.end.y)
       /\ position.y < Max(self.start.y, self.end.y)
    \/ /\ self.start.y = self.end.y
       /\ position.y = self.start.y
       /\ position.x > Min(self.start.x, self.end.x)
       /\ position.x < Max(self.start.x, self.end.x)

\* BridgeLine::crosses
Crosses(self, position) ==
    \/ /\ self.start.x = self.end.x
       /\ position.x = self.start.x
       /\ position.y >= Min(self.start.y, self.end.y)
       /\ position.y <= Max(self.start.y, self.end.y)
    \/ /\ self.start.y = self.end.y
       /\ position.y = self.start.y
       /\ position.x >= Min(self.start.x, self.end.x)
       /\ position.x <= Max(self.start.x, self.end.x)

(***************************************************************************)
(* BTreeMap iteration: the keys in ascending order.                        *)
(***************************************************************************)
RECURSIVE SortedPositions(_)
SortedPositions(S) ==
    IF S = {} THEN <<>>
    ELSE LET m == CHOOSE a \in S : \A b \in S : a = b \/ PosLess(a, b)
         IN <<m>> \o SortedPositions(S \ {m})

RECURSIVE SortedLines(_)
SortedLines(S) ==
    IF S = {} THEN <<>>
    ELSE LET m == CHOOSE a \in S : \A b \in S : a = b \/ LineLess(a, b)
         IN <<m>> \o SortedLines(S \ {m})

RECURSIVE Reversed(_)
Reversed(q) == IF q = <<>> THEN <<>> ELSE Append(Reversed(Tail(q)), Head(q))

\* A map whose iteration order is its own from one instance to the next (a
\* hash map): the second call sees the keys in another order.
IslandKeysHashOrder(isl) ==
    IF run = 2 THEN Reversed(SortedPositions(DOMAIN isl))
    ELSE SortedPositions(DOMAIN isl)

\* grid.islands.keys().copied().collect()
IslandKeys(isl) == SortedPositions(DOMAIN isl)

\* grid.bridges.keys() in iteration order
BridgeKeys(br) == SortedLines(DOMAIN br)

\* The empty BTreeMap.
EmptyMap == [k \in {} |-> 0]

\* BTreeMap::insert and BTreeMap::remove
MapInsert(m, k, v) == [j \in (DOMAIN m) \cup {k} |-> IF j = k THEN v ELSE m[j]]
\* A removal that removes nothing.
MapRemoveNothing(m, k) == m
MapRemove(m, k) == [j \in (DOMAIN m) \ {k} |-> m[j]]

(***************************************************************************)
(* HashiGrid validators.  isl is the island map (position -> required      *)
(* bridges), br the bridge map (line -> "Single" | "Double").              *)
(***************************************************************************)
Weight(t) == IF t = "Single" THEN 1 ELSE 2

RECURSIVE SumWeights(_, _, _)
\* The counting loop shared by count_brdges_ending_at, the finalization
\* step and is_complete: a u8 accumulator over the bridges in map order.
SumWeights(br, keys, position) ==
    IF keys = <<>> THEN 0
    ELSE LET l == Head(keys)
             rest == SumWeights(br, Tail(keys), position)
         IN IF l.start = position \/ l.end = position
            THEN Weight(br[l]) + rest
            ELSE rest

\* The count taking every bridge as one, whatever its type.
CountLinesEndingAt(br, position) ==
    Cardinality({l \in DOMAIN br : l.start = position \/ l.end = position})

\* HashiGrid::count_brdges_ending_at
CountBridgesEndingAt(br, position) == SumWeights(br, BridgeKeys(br), position)

\* can_add_island without its bounds test.
CanAddIslandNoBounds(w, h, isl, br, position) ==
    IF position \in DOMAIN isl
    THEN Err("Overwrite", position, "occupied")
    ELSE IF \E l \in DOMAIN br : Crosses(l, position)
    THEN Err("Overwrite", position, "on_bridge")
    ELSE Ok("Unit")

\* can_add_island with > for >= in the bounds test.
CanAddIslandInclusiveBounds(w, h, isl, br, position) ==
    IF position.x > w \/ position.y > h
    THEN Err("OutOfBounds", position, "bounds")
    ELSE IF position \in DOMAIN isl
    THEN Err("Overwrite", position, "occupied")
    ELSE IF \E l \in DOMAIN br : Crosses(l, position)
    THEN Err("Overwrite", position, "on_bridge")
    ELSE Ok("Unit")

\* can_add_island without its scan of the bridges.
CanAddIslandNoBridgeScan(w, h, isl, br, position) ==
    IF position.x >= w \/ position.y >= h
    THEN Err("OutOfBounds", position, "bounds")
    ELSE IF position \in DOMAIN isl
    THEN Err("Overwrite", position, "occupied")
    ELSE Ok("Unit")

\* HashiGrid::can_add_island
CanAddIsland(w, h, isl, br, position) ==
    IF position.x >= w \/ position.y >= h
    THEN Err("OutOfBounds", position, "bounds")
    ELSE IF position \in DOMAIN isl
    THEN Err("Overwrite", position, "occupied")
    ELSE IF \E l \in DOMAIN br : Crosses(l, position)
    THEN Err("Overwrite", position, "on_bridge")
    ELSE Ok("Unit")

\* The capacity test comparing with the present count, not the count after
\* the new bridge.
OverCapacityLate(isl, br, end) ==
    isl[end] # 0 /\ isl[end] < CountBridgesEndingAt(br, end)

\* The capacity test of can_bridge for one endpoint.
OverCapacity(isl, br, end) ==
    isl[end] # 0 /\ isl[end] < CountBridgesEndingAt(br, end) + 1

\* The scan for an island on the path finding none.
NoCrossedIsland(keys, bridge) == NoPos

\* The first element of a sequence satisfying a test, or the default.
RECURSIVE FirstCrossedIsland(_, _)
FirstCrossedIsland(keys, bridge) ==
    IF keys = <<>> THEN NoPos
    ELSE LET p == Head(keys)
         IN IF p # bridge.start /\ p # bridge.end /\ Crosses(bridge, p)
            THEN p
            ELSE FirstCrossedIsland(Tail(keys), bridge)

RECURSIVE FirstCollision(_, _)
FirstCollision(keys, bridge) ==
    IF keys = <<>> THEN NoPos
    ELSE LET c == Intersects(bridge, Head(keys))
         IN IF c # NoPos THEN c ELSE FirstCollision(Tail(keys), bridge)

\* HashiGrid::can_bridge
CanBridge(isl, br, bridge) ==
    IF bridge \in DOMAIN br /\ br[bridge] = "Double"
    THEN Err("Overwrite", bridge.start, "double")
    ELSE IF bridge \in DOMAIN br
    THEN \* Some(Single): the capacity of both ends, unwrapping the island
         IF bridge.start \notin DOMAIN isl THEN Panic("unwrap")
         ELSE IF OverCapacity(isl, br, bridge.start)
         THEN Err("Overwrite", bridge.start, "capacity")
         ELSE IF bridge.end \notin DOMAIN isl THEN Panic("unwrap")
         ELSE IF OverCapacity(isl, br, bridge.end)
         THEN Err("Overwrite", bridge.end, "capacity")
         ELSE Ok("Double")
    ELSE IF bridge.start \notin DOMAIN isl
    THEN Err("UnconnectedBridge", bridge.start, "unconnected")
    ELSE IF OverCapacity(isl, br, bridge.start)
    THEN Err("Overwrite", bridge.start, "capacity")
    ELSE IF bridge.end \notin DOMAIN isl
    THEN Err("UnconnectedBridge", bridge.end, "unconnected")
    ELSE IF OverCapacity(isl, br, bridge.end)
    THEN Err("Overwrite", bridge.end, "capacity")
    ELSE LET crossed == FirstCrossedIsland(IslandKeys(isl), bridge)
         IN IF crossed # NoPos THEN Err("Overwrite", crossed, "island")
            ELSE LET collision == FirstCollision(BridgeKeys(br), bridge)
                 IN IF collision # NoPos
                    THEN Err("Overwrite", collision, "intersection")
                    ELSE Ok("Single")

\* add_bridge keeping no entry but the line's.
AddBridgeMapAlone(isl, br, bridge) ==
    LET suitable == CanBridge(isl, br, bridge)
    IN IF suitable.tag = "Ok"
       THEN MapInsert(EmptyMap, bridge, suitable.kind)
       ELSE br

\* add_bridge inserting before it validates.
AddBridgeMapUnchecked(isl, br, bridge) ==
    MapInsert(br, bridge, IF bridge \in DOMAIN br THEN "Double" ELSE "Single")

\* add_bridge inserting Single whatever can_bridge returned.
AddBridgeMapSingleOnly(isl, br, bridge) ==
    IF CanBridge(isl, br, bridge).tag = "Ok"
    THEN MapInsert(br, bridge, "Single")
    ELSE br

\* HashiGrid::add_bridge: the bridge map after the call.
AddBridgeMap(isl, br, bridge) ==
    LET suitable == CanBridge(isl, br, bridge)
    IN IF suitable.tag = "Ok" THEN MapInsert(br, bridge, suitable.kind) ELSE br

\* HashiGrid::add_island: the island map after the call.
AddIslandMap(w, h, isl, br, position) ==
    IF CanAddIsland(w, h, isl, br, position).tag = "Ok"
    THEN MapInsert(isl, position, 0)
    ELSE isl

\* is_complete without its first loop (the sentinel check).
IsCompleteNoSentinel(isl, br) ==
    \A p \in DOMAIN isl : SumWeights(br, BridgeKeys(br), p) = isl[p]

\* HashiGrid::is_complete
IsComplete(isl, br) ==
    /\ \A p \in DOMAIN isl : isl[p] # 0
    /\ \A p \in DOMAIN isl : SumWeights(br, BridgeKeys(br), p) = isl[p]

(***************************************************************************)
(* The random stream.  StdRng is a deterministic generator: its stream is  *)
(* a function of the seed.  A draw is a raw number u; random_range(lo..hi) *)
(* maps u into the range, and panics on an empty range.  A random f64 is   *)
(* taken in tenths (0 .. 9).                                               *)
(***************************************************************************)
EmptyRange(lo, hi) == hi <= lo
RandomRange(lo, hi, u) == lo + (u % (hi - lo))
RandomTenths(u) == u % 10

\* The raw draws a step may take from an arbitrary stream: every value of a
\* range of n, and for an f64 a value below both thresholds, the loop
\* threshold itself and a value above both.
Draws(n) == 0 .. (Max(n, 1) - 1)
F64Draws == {ChanceOfDouble - 1, ChanceOfLoop, ChanceOfLoop + 1}

\* The seeded stream: a state in 0 .. RngModulus - 1, advanced by one
\* fixed function per draw, the draw being read off the state.
RngModulus == 16
SeedFromU64(s) == (7 * s + 1) % RngModulus
RngAdvance(r) == (5 * r + 3) % RngModulus
RngOut(r) == r
RECURSIVE RngAdvanceBy(_, _)
RngAdvanceBy(r, n) == IF n = 0 THEN r ELSE RngAdvanceBy(RngAdvance(r), n - 1)
\* The k-th draw (k = 1, 2, ...) taken from the stream in state r.
RngDraw(r, k) == RngOut(RngAdvanceBy(r, k))

(***************************************************************************)
(* Calls.                                                                  *)
(***************************************************************************)
NoCall == "none"

\* No unit test of BridgeLine is running.
NoUnit == /\ args = NoCall /\ made = NoCall /\ answer = NoCall

\* No island id: the None of main.rs's selected and shuddered_island.
NoId == -1

\* GameState::default of main.rs (lines 65-79).
NoMain ==
    /\ main_islands = <<>>
    /\ main_bridges = EmptyMap
    /\ main_selected = NoId
    /\ main_shuddered_island = NoId

\* GameState::default (game.rs 20-30), apart from its grid.
NoUI ==
    /\ selected = NoPos
    /\ shuddered_island = NoPos
    /\ time_elapsed = 0
    /\ timeouts = {}
NoGrid == [islands |-> EmptyMap, bridges |-> EmptyMap]

\* The state in which generate_with_seed(w, h, s) is about to run.
InitCall(w, h, s) ==
    /\ pc = "call"
    /\ width = w
    /\ height = h
    /\ islands = EmptyMap
    /\ bridges = EmptyMap
    /\ num_islands = 0
    /\ max_remaining_iterations = 0
    /\ island_positions = <<>>
    /\ loop_i = 0
    /\ loop_d = 0
    /\ to_double = <<>>
    /\ double_i = 0
    /\ result = NoResult
    /\ last = NoCall
    /\ seed = s
    /\ run = 1
    /\ first = NoGrid
    /\ solution = EmptyMap
    /\ NoUnit
    /\ NoUI
    /\ NoMain

(***************************************************************************)
(* _generate, one loop iteration per action.                               *)
(***************************************************************************)
\* _generate's locals end with the call.
DropLocals ==
    /\ num_islands' = 0
    /\ max_remaining_iterations' = 0
    /\ island_positions' = <<>>
    /\ loop_i' = 0
    /\ loop_d' = 0
    /\ to_double' = <<>>
    /\ double_i' = 0

\* The function returns r: an Err through `?`, or a panic.
ReturnWith(r) ==
    /\ pc' = "returned"
    /\ result' = r
    /\ DropLocals
    /\ UNCHANGED <<last, caller_vars>>

\* The island target computed without the cast to u8.
NumIslandsWide(w, h) == Max((w * h) \div CellsPerIsland, MinIslands)

\* ((width as u16 * height as u16) / 5).max(8) as u8
NumIslands(w, h) == Max((w * h) \div CellsPerIsland, MinIslands) % U8Modulus

\* Lines 220-232: HashiGrid::new, num_islands, the first island.  The
\* iteration budget is cut down to cap.
GenerateStartWithin(ux, uy, cap) ==
    /\ pc = "call"
    /\ IF width = 0 \/ height = 0
       THEN /\ ReturnWith(Err("Size", NoPos, "size"))
            /\ UNCHANGED grid_vars
       ELSE LET position == Pos(RandomRange(0, width, ux),
                                RandomRange(0, height, uy))
                added == CanAddIsland(width, height, EmptyMap, EmptyMap, position)
            IN IF added.tag # "Ok"
               THEN /\ ReturnWith(added)
                    /\ UNCHANGED grid_vars
               ELSE /\ islands' = MapInsert(EmptyMap, position, 0)
                    /\ bridges' = EmptyMap
                    /\ num_islands' = NumIslands(width, height)
                    /\ max_remaining_iterations' =
                           Min(NumIslands(width, height) * AttemptsPerIsland,
                               cap)
                    /\ pc' = "grow"
                    /\ UNCHANGED <<width, height, island_positions, loop_i,
                                   loop_d, to_double, double_i, result, last,
                                   caller_vars>>

GenerateStart(ux, uy) == GenerateStartWithin(ux, uy, MaxAttempts)

\* The loop condition without its test of the budget.
GrowConditionNoBudget == Cardinality(DOMAIN islands) < num_islands

\* The growth loop's condition (line 235).
GrowCondition ==
    Cardinality(DOMAIN islands) < num_islands /\ max_remaining_iterations > 0

\* existing_island_pos of a growth iteration.
ExistingIsland(u1) ==
    LET island_keys == IslandKeys(islands)
    IN island_keys[RandomRange(0, Len(island_keys), u1) + 1]

\* The room test with > for >= at the far edges.
HasRoomOffByOne(existing, direction) ==
    CASE direction = 0 -> existing.y # 0
      [] direction = 1 -> ~(existing.y > height - 1)
      [] direction = 2 -> existing.x # 0
      [] OTHER -> ~(existing.x > width - 1)

\* Whether a direction has room beyond the island (lines 253-294): the
\* iteration proposes a position, and draws a third number, only then.
HasRoom(existing, direction) ==
    CASE direction = 0 -> existing.y # 0
      [] direction = 1 -> ~(existing.y >= height - 1)
      [] direction = 2 -> existing.x # 0
      [] OTHER -> ~(existing.x >= width - 1)

\* proposed_position when the direction has room.
ProposedPosition(existing, direction, u3) ==
    CASE direction = 0 -> Pos(existing.x, RandomRange(0, existing.y, u3))
      [] direction = 1 ->
            Pos(existing.x, RandomRange(existing.y + 1, height, u3))
      [] direction = 2 -> Pos(RandomRange(0, existing.x, u3), existing.y)
      [] OTHER -> Pos(RandomRange(existing.x + 1, width, u3), existing.y)

\* The range the third draw is mapped into is empty: random_range panics.
ProposedRangeEmpty(existing, direction) ==
    CASE direction = 0 -> EmptyRange(0, existing.y)
      [] direction = 1 -> EmptyRange(existing.y + 1, height)
      [] direction = 2 -> EmptyRange(0, existing.x)
      [] OTHER -> EmptyRange(existing.x + 1, width)

\* Lines 235-320: one iteration of the growth loop.
GrowIteration(u1, u2, u3) ==
    /\ pc = "grow"
    /\ GrowCondition
    /\ LET existing == ExistingIsland(u1)
           direction == RandomRange(0, 4, u2)
       IN IF ~HasRoom(existing, direction)
          THEN \* None => continue
               /\ max_remaining_iterations' = max_remaining_iterations - 1
               /\ UNCHANGED <<pc, grid_vars, num_islands, island_positions,
                              loop_i, loop_d, to_double, double_i, result,
                              last, caller_vars>>
          ELSE IF ProposedRangeEmpty(existing, direction)
          THEN /\ ReturnWith(Panic("empty_range"))
               /\ UNCHANGED grid_vars
          ELSE
            LET proposed == ProposedPosition(existing, direction, u3)
                added == CanAddIsland(width, height, islands, bridges, proposed)
                with_island == MapInsert(islands, proposed, 0)
                new_line == BridgeLineNew(existing, proposed)
                bridged == CanBridge(with_island, bridges, new_line.line)
            IN IF added.tag # "Ok"
               THEN \* Err(_e) => continue
                    /\ max_remaining_iterations' = max_remaining_iterations - 1
                    /\ UNCHANGED <<pc, grid_vars, num_islands,
                                   island_positions, loop_i, loop_d, to_double,
                                   double_i, result, last, caller_vars>>
               ELSE IF new_line.res.tag # "Ok"
               THEN \* BridgeLine::new(..)? returns the error
                    /\ ReturnWith(new_line.res)
                    /\ islands' = with_island
                    /\ UNCHANGED <<width, height, bridges>>
               ELSE IF bridged.tag = "Panic"
               THEN /\ ReturnWith(bridged)
                    /\ islands' = with_island
                    /\ UNCHANGED <<width, height, bridges>>
               ELSE /\ max_remaining_iterations' = max_remaining_iterations - 1
                    /\ islands' = IF bridged.tag = "Ok"
                                  THEN with_island
                                  ELSE MapRemove(with_island, proposed)
                    /\ bridges' = AddBridgeMap(with_island, bridges, new_line.line)
                    /\ UNCHANGED <<pc, width, height, num_islands,
                                   island_positions, loop_i, loop_d, to_double,
                                   double_i, result, last, caller_vars>>

\* How many draws a growth iteration takes from the stream.
GrowDraws(u1, u2) ==
    IF HasRoom(ExistingIsland(u1), RandomRange(0, 4, u2)) THEN 3 ELSE 2

\* Line 325: the growth loop has ended; the island keys are snapshotted.
GrowExit ==
    /\ pc = "grow"
    /\ ~GrowCondition
    /\ pc' = "loops"
    /\ island_positions' = IslandKeys(islands)
    /\ loop_i' = 1
    /\ loop_d' = 0
    /\ UNCHANGED <<grid_vars, num_islands, max_remaining_iterations,
                   to_double, double_i, result, last, caller_vars>>

(***************************************************************************)
(* The loop-edge pass (lines 324-393), one (island, direction) per action. *)
(***************************************************************************)
RECURSIVE NearestIsland(_, _, _, _, _)
\* The cell-by-cell scan from (x, y) in a direction (0 Up, 1 Down, 2 Left,
\* 3 Right) to the first island, or NoPos when the scan leaves the grid.
NearestIsland(isl, x, y, direction, limit) ==
    CASE direction = 0 ->
            IF y > 0
            THEN IF Pos(x, y - 1) \in DOMAIN isl THEN Pos(x, y - 1)
                 ELSE NearestIsland(isl, x, y - 1, direction, limit)
            ELSE NoPos
      [] direction = 1 ->
            IF y < limit - 1
            THEN IF Pos(x, y + 1) \in DOMAIN isl THEN Pos(x, y + 1)
                 ELSE NearestIsland(isl, x, y + 1, direction, limit)
            ELSE NoPos
      [] direction = 2 ->
            IF x > 0
            THEN IF Pos(x - 1, y) \in DOMAIN isl THEN Pos(x - 1, y)
                 ELSE NearestIsland(isl, x - 1, y, direction, limit)
            ELSE NoPos
      [] OTHER ->
            IF x < limit - 1
            THEN IF Pos(x + 1, y) \in DOMAIN isl THEN Pos(x + 1, y)
                 ELSE NearestIsland(isl, x + 1, y, direction, limit)
            ELSE NoPos

\* target_island of the pass's current island and direction.
TargetIsland ==
    LET island_pos == island_positions[loop_i]
    IN NearestIsland(islands, island_pos.x, island_pos.y, loop_d,
                     IF loop_d \in {0, 1} THEN height ELSE width)

\* The pass moves on to the next direction, or to the next island.
LoopAdvance ==
    /\ loop_d' = IF loop_d = 3 THEN 0 ELSE loop_d + 1
    /\ loop_i' = IF loop_d = 3 THEN loop_i + 1 ELSE loop_i

\* One body of the inner loop: find the target, draw, try the bridge.
LoopEdge(u) ==
    /\ pc = "loops"
    /\ loop_i <= Len(island_positions)
    /\ LET island_pos == island_positions[loop_i]
           target_pos == TargetIsland
           new_line == BridgeLineNew(island_pos, target_pos)
           bridged == CanBridge(islands, bridges, new_line.line)
       IN IF target_pos = NoPos \/ RandomTenths(u) > ChanceOfLoop
          THEN /\ LoopAdvance
               /\ UNCHANGED <<pc, grid_vars, num_islands,
                              max_remaining_iterations, island_positions,
                              to_double, double_i, result, last, caller_vars>>
          ELSE IF new_line.res.tag # "Ok"
          THEN /\ ReturnWith(new_line.res)
               /\ UNCHANGED grid_vars
          ELSE IF bridged.tag = "Panic"
          THEN /\ ReturnWith(bridged)
               /\ UNCHANGED grid_vars
          ELSE \* let _ = grid.add_bridge(..)
               /\ bridges' = AddBridgeMap(islands, bridges, new_line.line)
               /\ LoopAdvance
               /\ UNCHANGED <<pc, width, height, islands, num_islands,
                              max_remaining_iterations, island_positions,
                              to_double, double_i, result, last, caller_vars>>

\* How many draws one body of the loop-edge pass takes.
LoopDraws == IF TargetIsland = NoPos THEN 0 ELSE 1

\* The pass has visited every island: the doubling filter starts.
LoopExit ==
    /\ pc = "loops"
    /\ loop_i > Len(island_positions)
    /\ pc' = "select"
    /\ to_double' = <<>>
    /\ double_i' = 1
    /\ UNCHANGED <<grid_vars, num_islands, max_remaining_iterations,
                   island_positions, loop_i, loop_d, result, last,
                   caller_vars>>

(***************************************************************************)
(* Randomized doubling (lines 395-410) and finalization (lines 412-429).   *)
(***************************************************************************)
\* The filter without its test of the bridge type.
DoubleSelectAnyType(u) ==
    /\ pc = "select"
    /\ double_i <= Len(BridgeKeys(bridges))
    /\ LET bridge_line == BridgeKeys(bridges)[double_i]
       IN to_double' =
            IF RandomTenths(u) < ChanceOfDouble
            THEN Append(to_double, bridge_line)
            ELSE to_double
    /\ double_i' = double_i + 1
    /\ UNCHANGED <<pc, grid_vars, num_islands, max_remaining_iterations,
                   island_positions, loop_i, loop_d, result, last,
                   caller_vars>>

\* One element of the filter_map: a Single bridge draws, and is collected
\* when the draw is below 0.3; a Double bridge draws nothing.
DoubleSelect(u) ==
    /\ pc = "select"
    /\ double_i <= Len(BridgeKeys(bridges))
    /\ LET bridge_line == BridgeKeys(bridges)[double_i]
       IN to_double' =
            IF bridges[bridge_line] = "Single" /\ RandomTenths(u) < ChanceOfDouble
            THEN Append(to_double, bridge_line)
            ELSE to_double
    /\ double_i' = double_i + 1
    /\ UNCHANGED <<pc, grid_vars, num_islands, max_remaining_iterations,
                   island_positions, loop_i, loop_d, result, last,
                   caller_vars>>

\* How many draws one element of the filter takes.
DoubleDraws ==
    IF bridges[BridgeKeys(bridges)[double_i]] = "Single" THEN 1 ELSE 0

RECURSIVE AddBridges(_, _, _)
\* for bridge_line in bridge_lines_to_double { let _ = grid.add_bridge(..) }
AddBridges(isl, br, lines) ==
    IF lines = <<>> THEN br
    ELSE AddBridges(isl, AddBridgeMap(isl, br, Head(lines)), Tail(lines))

RECURSIVE RejectedUpgrades(_, _, _)
\* The lines of the doubling loop whose add_bridge call returned Err.
RejectedUpgrades(isl, br, lines) ==
    IF lines = <<>> THEN {}
    ELSE (IF CanBridge(isl, br, Head(lines)).tag = "Ok" THEN {} ELSE {Head(lines)})
         \cup RejectedUpgrades(isl, AddBridgeMap(isl, br, Head(lines)), Tail(lines))

\* The filter is exhausted: every collected line is handed to add_bridge.
DoubleApply ==
    /\ pc = "select"
    /\ double_i > Len(BridgeKeys(bridges))
    /\ bridges' = AddBridges(islands, bridges, to_double)
    /\ result' = IF RejectedUpgrades(islands, bridges, to_double) = {}
                 THEN Ok("Double")
                 ELSE Err("Overwrite", NoPos, "upgrade")
    /\ last' = "doubling"
    /\ pc' = "finalize"
    /\ UNCHANGED <<width, height, islands, gen_locals, caller_vars>>

\* The finalization counting a Double bridge once.
FinalizedCountingLines(isl, br) ==
    [island_pos \in DOMAIN isl |->
        Cardinality({l \in DOMAIN br :
                        l.start = island_pos \/ l.end = island_pos})]

\* The island map after "count bridges per island".
Finalized(isl, br) ==
    [island_pos \in DOMAIN isl |-> SumWeights(br, BridgeKeys(br), island_pos)]

\* Lines 412-429: every required_bridges is rewritten; Ok(grid).
Finalize ==
    /\ pc = "finalize"
    /\ islands' = Finalized(islands, bridges)
    /\ pc' = "returned"
    /\ result' = Ok("Grid")
    /\ last' = "generate"
    /\ DropLocals
    /\ UNCHANGED <<width, height, bridges, caller_vars>>

(***************************************************************************)
(* The game component: generate_with_seed(..).unwrap().wipe_bridges(), and *)
(* then the player's calls.                                                *)
(***************************************************************************)
\* wipe_bridges turning every bridge into a Single instead of clearing.
WipedBridgesDowngrade(br) == [l \in DOMAIN br |-> "Single"]

\* HashiGrid::wipe_bridges: the bridge map of the returned grid.
WipedBridges(br) == EmptyMap

\* game.rs lines 66-81: the generated grid is wiped and becomes the state.
WipeBridges ==
    /\ pc = "returned"
    /\ result = Ok("Grid")
    /\ width * height <= MaxPlayCells
    /\ solution' = bridges
    /\ bridges' = WipedBridges(bridges)
    /\ pc' = "play"
    /\ result' = NoResult
    /\ last' = "wipe_bridges"
    /\ UNCHANGED <<width, height, islands, gen_locals, seed, run, first>>

\* Every position of the grid.
Cells == {Pos(x, y) : x \in 0 .. (width - 1), y \in 0 .. (height - 1)}

\* grid.add_bridge(line), for a line BridgeLine::new returned.
AddBridge(line) ==
    /\ pc \in {"play", "api"}
    /\ LET suitable == CanBridge(islands, bridges, line)
       IN /\ suitable.tag # "Panic"
          /\ bridges' = AddBridgeMap(islands, bridges, line)
          /\ result' = suitable
          /\ last' = "add_bridge"
    /\ UNCHANGED <<pc, width, height, islands, gen_locals, caller_vars>>

\* grid.add_island(position) on a grid under construction; the position
\* may lie one row or column outside the grid.
AddIsland(position) ==
    /\ pc = "api"
    /\ Cardinality(DOMAIN islands) < MaxApiIslands
    /\ islands' = AddIslandMap(width, height, islands, bridges, position)
    /\ result' = CanAddIsland(width, height, islands, bridges, position)
    /\ last' = "add_island"
    /\ UNCHANGED <<pc, width, height, bridges, gen_locals, caller_vars>>

\* A removal click that deletes the entry whatever its type.
RemovedBridgeDropsDouble(br, key) ==
    IF key \in DOMAIN br THEN MapRemove(br, key) ELSE br

\* The bridge map after the onclick of a rendered bridge (game.rs 445-461).
RemovedBridge(br, key) ==
    IF key \in DOMAIN br
    THEN IF br[key] = "Double" THEN MapInsert(br, key, "Single")
         ELSE MapRemove(br, key)
    ELSE br

\* A click on a rendered bridge.
RemoveBridge(key) ==
    /\ pc = "play"
    /\ key \in DOMAIN bridges
    /\ bridges' = RemovedBridge(bridges, key)
    /\ result' = NoResult
    /\ last' = "remove_bridge"
    /\ UNCHANGED <<pc, width, height, islands, gen_locals, caller_vars>>

\* Every line between two cells of the grid.
CellLines ==
    {BridgeLineNew(a, b).line :
        <<a, b>> \in {c \in Cells \X Cells : BridgeLineNew(c[1], c[2]).res.tag = "Ok"}}

(***************************************************************************)
(* Initial states.                                                         *)
(***************************************************************************)
\* The state after HashiGrid::new(w, h) returned Ok.
InitApi(w, h) ==
    /\ pc = "api"
    /\ width = w
    /\ height = h
    /\ islands = EmptyMap
    /\ bridges = EmptyMap
    /\ num_islands = 0
    /\ max_remaining_iterations = 0
    /\ island_positions = <<>>
    /\ loop_i = 0
    /\ loop_d = 0
    /\ to_double = <<>>
    /\ double_i = 0
    /\ result = NoResult
    /\ last = NoCall
    /\ seed = 0
    /\ run = 1
    /\ first = NoGrid
    /\ solution = EmptyMap
    /\ NoUnit
    /\ NoUI
    /\ NoMain

\* generate_with_seed is called with any dimensions up to the bounds.
InitGenerate ==
    /\ \E w \in 0 .. MaxWidth, h \in 0 .. MaxHeight : InitCall(w, h, 0)
    /\ rng = 0

\* The game component's call, for the grids it is followed into play on.
InitGame ==
    /\ \E w \in 0 .. MaxPlayCells, h \in 0 .. MaxPlayCells :
          w * h <= MaxPlayCells /\ InitCall(w, h, 0)
    /\ rng = 0

\* A grid built call by call, as the unit tests build theirs.
InitBuild == InitApi(MaxWidth, MaxHeight) /\ rng = 0

\* Two calls of generate_with_seed with one seed.
InitSeeded ==
    \E w \in 0 .. MaxWidth, h \in 0 .. MaxHeight, s \in 0 .. (MaxSeed - 1) :
        InitCall(w, h, s) /\ rng = SeedFromU64(s)

(***************************************************************************)
(* The steps on an arbitrary random stream.                                *)
(***************************************************************************)
AnyGenerateStart ==
    /\ \E ux \in Draws(width), uy \in Draws(height) : GenerateStart(ux, uy)
    /\ rng' = rng /\ UNCHANGED <<unit_vars, main_vars, ui_vars>>
AnyGrowIteration ==
    /\ \E u1 \in Draws(Cardinality(DOMAIN islands)), u2 \in Draws(4),
          u3 \in Draws(Max(width, height)) : GrowIteration(u1, u2, u3)
    /\ rng' = rng /\ UNCHANGED <<unit_vars, main_vars, ui_vars>>
AnyLoopEdge == (\E u \in F64Draws : LoopEdge(u)) /\ rng' = rng /\ UNCHANGED <<unit_vars, main_vars, ui_vars>>
AnyDoubleSelect == (\E u \in F64Draws : DoubleSelect(u)) /\ rng' = rng /\ UNCHANGED <<unit_vars, main_vars, ui_vars>>
GrowExitStep == GrowExit /\ rng' = rng /\ UNCHANGED <<unit_vars, main_vars, ui_vars>>
LoopExitStep == LoopExit /\ rng' = rng /\ UNCHANGED <<unit_vars, main_vars, ui_vars>>
DoubleApplyStep == DoubleApply /\ rng' = rng /\ UNCHANGED <<unit_vars, main_vars, ui_vars>>
FinalizeStep == Finalize /\ rng' = rng /\ UNCHANGED <<unit_vars, main_vars, ui_vars>>
WipeBridgesStep == WipeBridges /\ rng' = rng /\ UNCHANGED <<unit_vars, main_vars, ui_vars>>
AddBridgeStep == (\E line \in CellLines : AddBridge(line)) /\ rng' = rng /\ UNCHANGED <<unit_vars, main_vars, ui_vars>>
RemoveBridgeStep == (\E key \in DOMAIN bridges : RemoveBridge(key)) /\ rng' = rng /\ UNCHANGED <<unit_vars, main_vars, ui_vars>>
AddIslandStep ==
    /\ \E x \in 0 .. width, y \in 0 .. height : AddIsland(Pos(x, y))
    /\ rng' = rng /\ UNCHANGED <<unit_vars, main_vars, ui_vars>>

(***************************************************************************)
(* The steps on the seeded stream, and the second call.                    *)
(***************************************************************************)
SeededGenerateStart ==
    /\ GenerateStart(RngDraw(rng, 1), RngDraw(rng, 2))
    /\ rng' = IF width = 0 \/ height = 0 THEN rng ELSE RngAdvanceBy(rng, 2)
    /\ UNCHANGED <<unit_vars, main_vars, ui_vars>>
SeededGrowIteration ==
    /\ GrowIteration(RngDraw(rng, 1), RngDraw(rng, 2), RngDraw(rng, 3))
    /\ rng' = RngAdvanceBy(rng, GrowDraws(RngDraw(rng, 1), RngDraw(rng, 2)))
    /\ UNCHANGED <<unit_vars, main_vars, ui_vars>>
SeededLoopEdge ==
    /\ LoopEdge(RngDraw(rng, 1))
    /\ rng' = RngAdvanceBy(rng, LoopDraws)
    /\ UNCHANGED <<unit_vars, main_vars, ui_vars>>
SeededDoubleSelect ==
    /\ DoubleSelect(RngDraw(rng, 1))
    /\ rng' = RngAdvanceBy(rng, DoubleDraws)
    /\ UNCHANGED <<unit_vars, main_vars, ui_vars>>

\* The caller keeps the first grid and calls generate_with_seed again with
\* the same arguments (hashi.rs lines 1285-1294).
GenerateAgain ==
    /\ pc = "returned"
    /\ run = 1
    /\ first' = [islands |-> islands, bridges |-> bridges]
    /\ run' = 2
    /\ pc' = "call"
    /\ islands' = EmptyMap
    /\ bridges' = EmptyMap
    /\ result' = NoResult
    /\ last' = NoCall
    /\ rng' = SeedFromU64(seed)
    /\ UNCHANGED <<unit_vars, main_vars, ui_vars>>
    /\ UNCHANGED <<width, height, gen_locals, seed, solution>>

(***************************************************************************)
(* The unit tests of BridgeLine: new on two positions in both orders and   *)
(* on a second pair, then intersects on the two lines in both orders, or   *)
(* crosses on the first line and a position.                               *)
(***************************************************************************)
Positions == {Pos(x, y) : x \in 0 .. MaxCoord, y \in 0 .. MaxCoord}

InitUnit ==
    /\ pc = "unit"
    /\ width = 0
    /\ height = 0
    /\ islands = EmptyMap
    /\ bridges = EmptyMap
    /\ num_islands = 0
    /\ max_remaining_iterations = 0
    /\ island_positions = <<>>
    /\ loop_i = 0
    /\ loop_d = 0
    /\ to_double = <<>>
    /\ double_i = 0
    /\ result = NoResult
    /\ last = NoCall
    /\ seed = 0
    /\ rng = 0
    /\ run = 1
    /\ first = NoGrid
    /\ solution = EmptyMap
    /\ \E a \in Positions, b \in Positions, c \in Positions, d \in Positions :
          args = [start |-> a, end |-> b, other_start |-> c, other_end |-> d]
    /\ made = NoCall
    /\ answer = NoCall
    /\ NoUI
    /\ NoMain

\* BridgeLine::new(a, b), BridgeLine::new(b, a) and BridgeLine::new(c, d).
NewLines ==
    /\ pc = "unit"
    /\ made' = [line |-> BridgeLineNew(args.start, args.end),
                swapped |-> BridgeLineNew(args.end, args.start),
                other |-> BridgeLineNew(args.other_start, args.other_end)]
    /\ pc' = "made"
    /\ UNCHANGED <<grid_vars, gen_locals, caller_vars, result, last, rng,
                   ui_vars, main_vars, args, answer>>

\* line.intersects(&other) and other.intersects(&line).
IntersectsCall ==
    /\ pc = "made"
    /\ made.line.res.tag = "Ok"
    /\ made.other.res.tag = "Ok"
    /\ answer' = [call |-> "intersects",
                  point |-> Intersects(made.line.line, made.other.line),
                  swapped |-> Intersects(made.other.line, made.line.line),
                  crossed |-> FALSE]
    /\ pc' = "answered"
    /\ UNCHANGED <<grid_vars, gen_locals, caller_vars, result, last, rng,
                   ui_vars, main_vars, args, made>>

\* line.crosses(position), the position being the second pair's first.
CrossesCall ==
    /\ pc = "made"
    /\ made.line.res.tag = "Ok"
    /\ answer' = [call |-> "crosses",
                  point |-> NoPos,
                  swapped |-> NoPos,
                  crossed |-> Crosses(made.line.line, args.other_start)]
    /\ pc' = "answered"
    /\ UNCHANGED <<grid_vars, gen_locals, caller_vars, result, last, rng,
                   ui_vars, main_vars, args, made>>

NextUnit ==
    \/ NewLines
    \/ IntersectsCall
    \/ CrossesCall

SpecUnit == InitUnit /\ [][NextUnit]_vars

(***************************************************************************)
(* The sizing statement of _generate alone, on every width and height a    *)
(* u8 holds.                                                               *)
(***************************************************************************)
InitSizing ==
    /\ \E w \in 1 .. MaxDim, h \in 1 .. MaxDim : InitCall(w, h, 0)
    /\ rng = 0

\* Line 224: let num_islands = ...
Sizing ==
    /\ pc = "call"
    /\ num_islands' = NumIslands(width, height)
    /\ pc' = "sized"
    /\ UNCHANGED <<grid_vars, max_remaining_iterations, island_positions,
                   loop_i, loop_d, to_double, double_i, result, last,
                   caller_vars, rng, unit_vars, main_vars, ui_vars>>

NextSizing == Sizing

SpecSizing == InitSizing /\ [][NextSizing]_vars

(***************************************************************************)
(* The growth loop alone, with a budget that lets it reach its target.     *)
(***************************************************************************)
InitGrow ==
    /\ \E w \in 1 .. MaxWidth, h \in 1 .. MaxHeight : InitCall(w, h, 0)
    /\ rng = 0

LongGenerateStart ==
    /\ \E ux \in Draws(width), uy \in Draws(height) :
          GenerateStartWithin(ux, uy, MaxGrowAttempts)
    /\ rng' = rng /\ UNCHANGED <<unit_vars, main_vars, ui_vars>>

NextGrow ==
    \/ LongGenerateStart
    \/ AnyGrowIteration
    \/ GrowExitStep

SpecGrow == InitGrow /\ [][NextGrow]_vars

(***************************************************************************)
(* The game component with its selection, shudder indication, timer and    *)
(* shudder timeouts.  Every handler reads the state its handle holds: the  *)
(* click handlers and the timer are re-created at each render and hold the *)
(* current state; a shudder timeout holds the handle of the click that     *)
(* scheduled it, that is the state as it was when that click arrived.      *)
(***************************************************************************)
\* HashiGrid::placeholder (hashi.rs 182-189): the grid of
\* GameState::default.
Placeholder == [width |-> 0, height |-> 0, islands |-> EmptyMap,
                bridges |-> EmptyMap]

\* GameState.grid: the placeholder from the first render until the effect
\* has set the generated grid (while it runs the grid under construction
\* is a local of the effect), and the grid in play afterwards.
StateGrid ==
    IF pc = "play"
    THEN [width |-> width, height |-> height, islands |-> islands,
          bridges |-> bridges]
    ELSE Placeholder

\* render_game (game.rs 233 and 259-263): the victory overlay is rendered
\* when state.grid.is_complete().
VictoryOverlayShown == IsComplete(StateGrid.islands, StateGrid.bridges)

\* The effect of game.rs lines 66-81: the wiped grid, with selected and
\* shuddered_island None and time_elapsed 0, becomes the state.
UseEffect ==
    /\ WipeBridges
    /\ width * height <= MaxUICells
    /\ selected' = NoPos
    /\ shuddered_island' = NoPos
    /\ time_elapsed' = 0
    /\ UNCHANGED <<timeouts, rng, unit_vars, main_vars>>

\* What the handle cloned into a shudder timeout holds of the state.
StateForTimeout == [bridges |-> bridges, time_elapsed |-> time_elapsed]

\* on_island_click(currently_selected), game.rs lines 165-227.
OnIslandClick(currently_selected) ==
    /\ pc = "play"
    /\ currently_selected \in DOMAIN islands
    /\ IF selected = NoPos
       THEN /\ selected' = currently_selected
            /\ result' = NoResult
            /\ last' = "on_island_click"
            /\ UNCHANGED <<bridges, shuddered_island, timeouts>>
       ELSE IF selected = currently_selected
       THEN /\ selected' = NoPos
            /\ result' = NoResult
            /\ last' = "on_island_click"
            /\ UNCHANGED <<bridges, shuddered_island, timeouts>>
       ELSE LET proposed_bridge == BridgeLineNew(selected, currently_selected)
            IN IF proposed_bridge.res.tag = "Err"
               THEN /\ Cardinality(timeouts) < MaxPending
                    /\ shuddered_island' = currently_selected
                    /\ selected' = NoPos
                    /\ timeouts' = timeouts \cup {StateForTimeout}
                    /\ result' = proposed_bridge.res
                    /\ last' = "BridgeLine::new"
                    /\ UNCHANGED bridges
               ELSE LET suitable ==
                            CanBridge(islands, bridges, proposed_bridge.line)
                    IN /\ suitable.tag # "Panic"
                       /\ bridges' = AddBridgeMap(islands, bridges,
                                                  proposed_bridge.line)
                       /\ result' = suitable
                       /\ last' = "add_bridge"
                       /\ selected' = NoPos
                       /\ IF suitable.tag = "Ok"
                          THEN /\ shuddered_island' = NoPos
                               /\ UNCHANGED timeouts
                          ELSE /\ Cardinality(timeouts) < MaxPending
                               /\ shuddered_island' = currently_selected
                               /\ timeouts' = timeouts \cup {StateForTimeout}
    /\ UNCHANGED <<pc, width, height, islands, gen_locals, caller_vars,
                   time_elapsed, rng, unit_vars, main_vars>>

IslandClick == \E p \in DOMAIN islands : OnIslandClick(p)

\* The onclick of a rendered bridge, game.rs lines 445-461.
BridgeClick ==
    /\ \E key \in DOMAIN bridges : RemoveBridge(key)
    /\ UNCHANGED <<rng, unit_vars, main_vars, ui_vars>>

\* The use_interval callback, game.rs lines 84-96.
TimerTick ==
    /\ pc = "play"
    /\ ~IsComplete(islands, bridges)
    /\ time_elapsed < MaxTime
    /\ time_elapsed' = time_elapsed + 1
    /\ result' = NoResult
    /\ last' = "use_interval"
    /\ UNCHANGED <<pc, grid_vars, gen_locals, caller_vars, rng, unit_vars, main_vars,
                   selected, shuddered_island, timeouts>>

\* A shudder timeout fires (game.rs lines 184-191 and 213-220): the state
\* its handle holds, with shuddered_island and selected None, is set.
ShudderTimeout ==
    /\ pc = "play"
    /\ \E t \in timeouts :
          /\ bridges' = t.bridges
          /\ time_elapsed' = t.time_elapsed
          /\ timeouts' = timeouts \ {t}
    /\ shuddered_island' = NoPos
    /\ selected' = NoPos
    /\ result' = NoResult
    /\ last' = "Timeout"
    /\ UNCHANGED <<pc, width, height, islands, gen_locals, caller_vars, rng,
                   unit_vars, main_vars>>

(***************************************************************************)
(* main.rs: its own GameState, with islands named by id and bridges kept   *)
(* as counts under the key (smaller id, larger id), and its own rules.     *)
(***************************************************************************)
\* GameState::island
island(isl, id) == isl[CHOOSE i \in 1 .. Len(isl) : isl[i].id = id]

RECURSIVE SumCounts(_, _)
SumCounts(br, keys) ==
    IF keys = {} THEN 0
    ELSE LET k == CHOOSE k \in keys : TRUE
         IN br[k] + SumCounts(br, keys \ {k})

\* GameState::bridges_for
bridges_for(br, id) ==
    SumCounts(br, {k \in DOMAIN br : k[1] = id \/ k[2] = id})

\* blocked(a, b, islands)
blocked(a, b, isl) ==
    \E n \in 1 .. Len(isl) :
        LET i == isl[n]
        IN IF i.id = a.id \/ i.id = b.id THEN FALSE
           ELSE IF a.x = b.x /\ i.x = a.x
           THEN i.y > Min(a.y, b.y) /\ i.y < Max(a.y, b.y)
           ELSE IF a.y = b.y /\ i.y = a.y
           THEN i.x > Min(a.x, b.x) /\ i.x < Max(a.x, b.x)
           ELSE FALSE

\* crosses(a1, b1, a2, b2) that never finds a crossing.
crosses_never(a1, b1, a2, b2) == FALSE

\* crosses(a1, b1, a2, b2)
crosses(a1, b1, a2, b2) ==
    LET h1 == a1.y = b1.y
        h2 == a2.y = b2.y
    IN IF h1 = h2 THEN FALSE
       ELSE LET h == IF h1 THEN <<a1, b1>> ELSE <<a2, b2>>
                v == IF h1 THEN <<a2, b2>> ELSE <<a1, b1>>
                hy == h[1].y
                hx1 == Min(h[1].x, h[2].x)
                hx2 == Max(h[1].x, h[2].x)
                vx == v[1].x
                vy1 == Min(v[1].y, v[2].y)
                vy2 == Max(v[1].y, v[2].y)
            IN vx > hx1 /\ vx < hx2 /\ hy > vy1 /\ hy < vy2

\* GameState::can_add_bridge
can_add_bridge(isl, br, a, b) ==
    LET ia == island(isl, a)
        ib == island(isl, b)
        key == <<Min(a, b), Max(a, b)>>
        existing == IF key \in DOMAIN br THEN br[key] ELSE 0
    IN IF ia.x # ib.x /\ ia.y # ib.y THEN FALSE
       ELSE IF blocked(ia, ib, isl) THEN FALSE
       ELSE IF existing >= 2 THEN FALSE
       ELSE IF bridges_for(br, a) + 1 > ia.required THEN FALSE
       ELSE IF bridges_for(br, b) + 1 > ib.required THEN FALSE
       ELSE IF \E k \in DOMAIN br :
                  crosses(ia, ib, island(isl, k[1]), island(isl, k[2]))
       THEN FALSE
       ELSE TRUE

\* The orders in which a HashMap may iterate over its keys.
KeyOrders(br) ==
    {q \in [1 .. Cardinality(DOMAIN br) -> DOMAIN br] :
        \A i, j \in DOMAIN q : i # j => q[i] # q[j]}

\* The for loop of is_connected: what it pushes for the island popped.
RECURSIVE Pushed(_, _, _)
Pushed(order, current, visited) ==
    IF order = <<>> THEN <<>>
    ELSE LET a == Head(order)[1]
             b == Head(order)[2]
             rest == Pushed(Tail(order), current, visited)
         IN IF a = current /\ b \notin visited THEN <<b>> \o rest
            ELSE IF b = current /\ a \notin visited THEN <<a>> \o rest
            ELSE rest

\* The while loop of is_connected: the visited set when the stack is empty.
RECURSIVE Visited(_, _, _)
Visited(stack, visited, order) ==
    IF stack = <<>> THEN visited
    ELSE LET current == stack[Len(stack)]
             popped == SubSeq(stack, 1, Len(stack) - 1)
         IN IF current \in visited
            THEN Visited(popped, visited, order)
            ELSE Visited(popped \o Pushed(order, current,
                                          visited \cup {current}),
                         visited \cup {current}, order)

\* is_connected that takes every island as reached.
is_connected_always(isl, order) == TRUE

\* GameState::is_connected, the key set being iterated in the given order.
is_connected(isl, order) ==
    IF isl = <<>> THEN TRUE
    ELSE Cardinality(Visited(<<isl[1].id>>, {}, order)) = Len(isl)

\* GameState::is_complete
is_complete(isl, br, order) ==
    IF isl = <<>> THEN FALSE
    ELSE IF \E n \in 1 .. Len(isl) :
               bridges_for(br, isl[n].id) # isl[n].required
    THEN FALSE
    ELSE IF ~is_connected(isl, order) THEN FALSE
    ELSE TRUE

\* The island list the effect of main.rs builds from a grid (lines 361-369):
\* the islands in the order of the BTreeMap, the id being the index.
MainIslands(isl) ==
    LET keys == IslandKeys(isl)
    IN [n \in 1 .. Len(keys) |->
          [id |-> n - 1, x |-> keys[n].x, y |-> keys[n].y,
           required |-> isl[keys[n]]]]

\* The position of the island with an id, and the line of a key.
PositionOf(isl, id) == Pos(island(isl, id).x, island(isl, id).y)
LineOf(isl, key) ==
    BridgeLineNew(PositionOf(isl, key[1]), PositionOf(isl, key[2]))

\* The layouts: any islands on the grid, the islands of one layout all
\* requiring the same number of bridges.
MainLayouts ==
    UNION {{[p \in S |-> r] : r \in 0 .. MaxRequired} :
              S \in {T \in SUBSET {Pos(x, y) : x \in 0 .. MaxWidth - 1,
                                                y \in 0 .. MaxHeight - 1} :
                         Cardinality(T) <= MaxMainIslands}}

\* The state the effect of main.rs sets for a layout, next to a HashiGrid of
\* hashi.rs that holds the same islands and no bridge.
InitMain ==
    /\ pc = "main"
    /\ width = MaxWidth
    /\ height = MaxHeight
    /\ islands \in MainLayouts
    /\ bridges = EmptyMap
    /\ num_islands = 0
    /\ max_remaining_iterations = 0
    /\ island_positions = <<>>
    /\ loop_i = 0
    /\ loop_d = 0
    /\ to_double = <<>>
    /\ double_i = 0
    /\ result = NoResult
    /\ last = NoCall
    /\ seed = 0
    /\ rng = 0
    /\ run = 1
    /\ first = NoGrid
    /\ solution = EmptyMap
    /\ NoUnit
    /\ NoUI
    /\ main_islands = MainIslands(islands)
    /\ main_bridges = EmptyMap
    /\ main_selected = NoId
    /\ main_shuddered_island = NoId

\* on_island_click(id) of main.rs (lines 519-542); where it asks
\* can_add_bridge(prev, id), the HashiGrid is given the same gesture:
\* add_bridge(BridgeLine::new(..)) on the positions of the two islands.
MainOnIslandClick(id) ==
    /\ pc = "main"
    /\ IF main_selected = NoId
       THEN /\ main_selected' = id
            /\ result' = NoResult
            /\ last' = "on_island_click"
            /\ UNCHANGED <<main_bridges, main_shuddered_island, bridges>>
       ELSE IF main_selected = id
       THEN /\ result' = NoResult
            /\ last' = "on_island_click"
            /\ UNCHANGED <<main_selected, main_bridges,
                           main_shuddered_island, bridges>>
       ELSE LET prev == main_selected
                key == <<Min(prev, id), Max(prev, id)>>
                proposed_bridge == BridgeLineNew(PositionOf(main_islands, prev),
                                                 PositionOf(main_islands, id))
            IN /\ main_selected' = NoId
               /\ IF can_add_bridge(main_islands, main_bridges, prev, id)
                  THEN /\ main_bridges' =
                            MapInsert(main_bridges, key,
                                      IF key \in DOMAIN main_bridges
                                      THEN main_bridges[key] + 1 ELSE 1)
                       /\ UNCHANGED main_shuddered_island
                  ELSE /\ main_shuddered_island' = id
                       /\ UNCHANGED main_bridges
               /\ IF proposed_bridge.res.tag = "Ok"
                  THEN /\ bridges' = AddBridgeMap(islands, bridges,
                                                  proposed_bridge.line)
                       /\ result' = CanBridge(islands, bridges,
                                              proposed_bridge.line)
                       /\ last' = "add_bridge"
                  ELSE /\ result' = proposed_bridge.res
                       /\ last' = "BridgeLine::new"
                       /\ UNCHANGED bridges
    /\ UNCHANGED <<pc, width, height, islands, gen_locals, caller_vars, rng,
                   unit_vars, ui_vars, main_islands>>

MainIslandClick ==
    \E n \in 1 .. Len(main_islands) : MainOnIslandClick(main_islands[n].id)

\* The count map after the onclick of a rendered bridge of main.rs
\* (lines 834-844).
MainRemovedBridge(br, key) ==
    IF key \in DOMAIN br
    THEN IF br[key] > 1 THEN MapInsert(br, key, br[key] - 1)
         ELSE MapRemove(br, key)
    ELSE br

\* A click on a rendered bridge of main.rs, and the removal click of
\* game.rs on the same line of the HashiGrid.
MainBridgeClick ==
    /\ pc = "main"
    /\ \E key \in DOMAIN main_bridges :
          /\ main_bridges' = MainRemovedBridge(main_bridges, key)
          /\ bridges' = RemovedBridge(bridges, LineOf(main_islands, key).line)
    /\ result' = NoResult
    /\ last' = "remove_bridge"
    /\ UNCHANGED <<pc, width, height, islands, gen_locals, caller_vars, rng,
                   unit_vars, ui_vars, main_islands, main_selected,
                   main_shuddered_island>>

NextMain ==
    \/ MainIslandClick
    \/ MainBridgeClick

SpecMain == InitMain /\ [][NextMain]_vars

(***************************************************************************)
(* Specifications.                                                         *)
(*   Spec       generate_with_seed on any stream and any dimensions, the   *)
(*              game component's wipe and play on the small grids, and a   *)
(*              grid built call by call                                    *)
(*   SpecGame   the game component alone, on the small grids               *)
(*   SpecBuild  the grid built call by call alone                          *)
(*   SpecSeeded two calls of generate_with_seed with the same seed         *)
(*   SpecUnit   (above) BridgeLine's functions on arbitrary positions      *)
(*   SpecSizing (above) the island target on every width and height        *)
(*   SpecGrow   (above) the growth loop alone, up to its island target     *)
(*   SpecUI     the game component with its clicks, timer and timeouts     *)
(*   SpecMain   (above) main.rs's GameState next to a HashiGrid            *)
(***************************************************************************)
Next ==
    \/ AnyGenerateStart
    \/ AnyGrowIteration
    \/ GrowExitStep
    \/ AnyLoopEdge
    \/ LoopExitStep
    \/ AnyDoubleSelect
    \/ DoubleApplyStep
    \/ FinalizeStep
    \/ WipeBridgesStep
    \/ AddBridgeStep
    \/ RemoveBridgeStep
    \/ AddIslandStep

Init == InitGenerate \/ InitBuild

Spec == Init /\ [][Next]_vars

NextGame ==
    \/ AnyGenerateStart
    \/ AnyGrowIteration
    \/ GrowExitStep
    \/ AnyLoopEdge
    \/ LoopExitStep
    \/ AnyDoubleSelect
    \/ DoubleApplyStep
    \/ FinalizeStep
    \/ WipeBridgesStep
    \/ AddBridgeStep
    \/ RemoveBridgeStep

SpecGame == InitGame /\ [][NextGame]_vars

NextBuild ==
    \/ AddBridgeStep
    \/ AddIslandStep

SpecBuild == InitBuild /\ [][NextBuild]_vars

NextSeeded ==
    \/ SeededGenerateStart
    \/ SeededGrowIteration
    \/ GrowExitStep
    \/ SeededLoopEdge
    \/ LoopExitStep
    \/ SeededDoubleSelect
    \/ DoubleApplyStep
    \/ FinalizeStep
    \/ GenerateAgain

SpecSeeded == InitSeeded /\ [][NextSeeded]_vars

\* The game component's call, for the grids its clicks are followed on.
InitUI ==
    /\ \E w \in 0 .. MaxUICells, h \in 0 .. MaxUICells :
          w * h <= MaxUICells /\ InitCall(w, h, 0)
    /\ rng = 0

NextUI ==
    \/ AnyGenerateStart
    \/ AnyGrowIteration
    \/ GrowExitStep
    \/ AnyLoopEdge
    \/ LoopExitStep
    \/ AnyDoubleSelect
    \/ DoubleApplyStep
    \/ FinalizeStep
    \/ UseEffect
    \/ IslandClick
    \/ BridgeClick
    \/ TimerTick
    \/ ShudderTimeout

SpecUI == InitUI /\ [][NextUI]_vars

(***************************************************************************)
(* Notions the properties are stated with.                                 *)
(***************************************************************************)
\* The cells of a line's segment, endpoints included.
SegmentCells(l) ==
    {Pos(x, y) : x \in l.start.x .. l.end.x, y \in l.start.y .. l.end.y}

Endpoints(l) == {l.start, l.end}

\* The total weight of the bridges that start or end at p.
IncidentWeight(br, p) ==
    Cardinality({l \in DOMAIN br : p \in Endpoints(l)})
    + Cardinality({l \in DOMAIN br : p \in Endpoints(l) /\ br[l] = "Double"})

RECURSIVE ReachableFrom(_, _)
\* The islands joined to a set of islands by a path of bridges.
ReachableFrom(S, br) ==
    LET N == S \cup {l.end : l \in {k \in DOMAIN br : k.start \in S}}
               \cup {l.start : l \in {k \in DOMAIN br : k.end \in S}}
    IN IF N = S THEN S ELSE ReachableFrom(N, br)

\* All islands lie in one connected component of the bridge set.
Connected(isl, br) ==
    \A p \in DOMAIN isl : DOMAIN isl \subseteq ReachableFrom({p}, br)

\* Every island carries exactly its required weight, which is not zero.
Balanced(isl, br) ==
    \A p \in DOMAIN isl : isl[p] # 0 /\ IncidentWeight(br, p) = isl[p]

\* The bridge map is part of the generated one: a replay in progress.
Replaying ==
    \A l \in DOMAIN bridges :
        l \in DOMAIN solution /\ Weight(bridges[l]) <= Weight(solution[l])

\* The generated bridges the replay has still to add.
ReplayRemaining ==
    {l \in DOMAIN solution :
        l \notin DOMAIN bridges \/ Weight(bridges[l]) < Weight(solution[l])}

ReplayCompletes ==
    (pc = "play" /\ Replaying) =>
        /\ \A l \in ReplayRemaining : CanBridge(islands, bridges, l).tag = "Ok"
        /\ ReplayRemaining = {} => IsComplete(islands, bridges)

\* C3: is_complete is true only if all islands form one connected component.
CompleteOnlyIfConnected ==
    IsComplete(islands, bridges) => Connected(islands, bridges)

\* C4: in play, an island whose required_bridges is not zero never carries
\* more weight than its required_bridges.
CapacityRespected ==
    pc = "play" =>
        \A p \in DOMAIN islands :
            islands[p] # 0 => IncidentWeight(bridges, p) <= islands[p]

\* An add_bridge call in play was rejected for capacity at a full island.
CapacityRespectedWitness ==
    /\ pc = "play"
    /\ last = "add_bridge"
    /\ result.tag = "Err"
    /\ result.cause = "capacity"
    /\ islands[result.position] # 0
    /\ IncidentWeight(bridges, result.position) = islands[result.position]

\* C5: an add_bridge call that returns Err leaves width, height, the island
\* map and the bridge map as they were.
RejectedAddBridgeChangesNothing ==
    [][(last' = "add_bridge" /\ result'.tag = "Err") => UNCHANGED grid_vars]_vars

\* An add_bridge call was rejected because the line intersects a bridge.
RejectedAddBridgeWitness ==
    /\ last = "add_bridge"
    /\ result.tag = "Err"
    /\ result.cause = "intersection"
    /\ DOMAIN bridges # {}

\* C6: in a grid built by add_island and add_bridge calls, and in a grid
\* generate returned, no bridge's segment holds an island other than the
\* bridge's two endpoints.
NoBridgeThroughIsland ==
    pc \in {"api", "returned", "play"} =>
        \A l \in DOMAIN bridges :
            SegmentCells(l) \cap DOMAIN islands \subseteq Endpoints(l)

\* An island was refused because a bridge passes over its position.
NoBridgeThroughIslandWitness ==
    /\ pc = "api"
    /\ last = "add_island"
    /\ result.tag = "Err"
    /\ result.cause = "on_bridge"
    /\ \E l \in DOMAIN bridges : Cardinality(SegmentCells(l)) >= 3

\* C7: no two bridges share a cell that is not an endpoint of both.
NoBridgesShareCell ==
    pc \in {"api", "returned", "play"} =>
        \A l1 \in DOMAIN bridges : \A l2 \in DOMAIN bridges :
            l1 # l2 =>
                SegmentCells(l1) \cap SegmentCells(l2)
                    \subseteq Endpoints(l1) \cap Endpoints(l2)

\* A line was rejected at a cell inside the segment of a bridge of the grid.
NoBridgesShareCellWitness ==
    /\ pc = "api"
    /\ last = "add_bridge"
    /\ result.tag = "Err"
    /\ result.kind = "Overwrite"
    /\ \E l \in DOMAIN bridges :
          result.position \in SegmentCells(l) \ Endpoints(l)

\* C8: every island of a grid generate_with_seed returned has
\* required_bridges >= 1.
GeneratedRequiredPositive ==
    (pc = "returned" /\ result = Ok("Grid")) =>
        \A p \in DOMAIN islands : islands[p] >= 1

\* C9: generate_with_seed returns Err(Size) exactly when width or height is
\* 0, and otherwise returns Ok: no panic and no other error.
GenerateReturns ==
    pc = "returned" =>
        IF width = 0 \/ height = 0
        THEN result = Err("Size", NoPos, "size")
        ELSE result = Ok("Grid")

\* generate returned Ok after a growth loop that placed several islands.
GenerateReturnsWitness ==
    /\ pc = "returned"
    /\ result = Ok("Grid")
    /\ Cardinality(DOMAIN islands) >= 4
    /\ width = MaxWidth

\* C10: is_complete is false when some island has required_bridges 0 or a
\* weight other than its required_bridges, and true for a connected grid
\* whose islands all carry their nonzero required_bridges.
IsCompleteMeaning ==
    /\ (\E p \in DOMAIN islands :
            islands[p] = 0 \/ IncidentWeight(bridges, p) # islands[p])
        => ~IsComplete(islands, bridges)
    /\ (Connected(islands, bridges) /\ Balanced(islands, bridges))
        => IsComplete(islands, bridges)

\* Two islands each requiring 1, joined by one Single bridge: complete.
IsCompleteMeaningWitness ==
    /\ pc = "play"
    /\ Cardinality(DOMAIN islands) = 2
    /\ \A p \in DOMAIN islands : islands[p] = 1
    /\ Cardinality(DOMAIN bridges) = 1
    /\ IsComplete(islands, bridges)

\* The endpoints of a line that one more bridge would put over capacity.
AtCapacity(line) ==
    {e \in Endpoints(line) \cap DOMAIN islands :
        islands[e] # 0 /\ IncidentWeight(bridges, e) + 1 > islands[e]}

\* The line is unobstructed: no third island on its segment, and no bridge
\* sharing a cell with it other than a common endpoint.
Unobstructed(line) ==
    /\ SegmentCells(line) \cap DOMAIN islands \subseteq Endpoints(line)
    /\ \A l \in DOMAIN bridges \ {line} :
          SegmentCells(l) \cap SegmentCells(line)
              \subseteq Endpoints(l) \cap Endpoints(line)

\* C11: in the grid generate returned, each island's required_bridges is
\* the sum of the weights of the returned bridges that start or end at it.
RequiredIsIncidentWeight ==
    (pc = "returned" /\ result = Ok("Grid")) =>
        \A p \in DOMAIN islands : islands[p] = IncidentWeight(bridges, p)

\* generate returned a grid in which an island carries a Double bridge and
\* another bridge.
RequiredIsIncidentWeightWitness ==
    /\ pc = "returned"
    /\ result = Ok("Grid")
    /\ \E p \in DOMAIN islands :
          /\ islands[p] >= 3
          /\ \E l \in DOMAIN bridges : p \in Endpoints(l) /\ bridges[l] = "Double"

\* C12: for a line with no entry, add_bridge reports a missing endpoint as
\* UnconnectedBridge at that endpoint, whatever the capacity of the other.
MissingEndpointReported ==
    pc \in {"play", "api"} =>
        \A line \in CellLines :
            (line \notin DOMAIN bridges
             /\ ~(Endpoints(line) \subseteq DOMAIN islands)) =>
                LET r == CanBridge(islands, bridges, line)
                IN /\ r.tag = "Err"
                   /\ r.kind = "UnconnectedBridge"
                   /\ r.position \in Endpoints(line) \ DOMAIN islands

\* C13: an add_bridge call that would put an island with nonzero
\* required_bridges over capacity fails with Overwrite at that island, for a
\* new line and for a line that has an entry.
OverCapacityNamesIsland ==
    pc = "play" =>
        \A line \in CellLines :
            (Endpoints(line) \subseteq DOMAIN islands /\ AtCapacity(line) # {}) =>
                LET r == CanBridge(islands, bridges, line)
                IN /\ r.tag = "Err"
                   /\ r.kind = "Overwrite"
                   /\ r.position \in AtCapacity(line)

\* C13, amended: for a new line and for a Single entry the call fails with
\* Overwrite at the first endpoint (start, then end) that would go over
\* capacity; for a Double entry it fails with Overwrite at the line's start,
\* whichever endpoint is at capacity.
OverCapacityNamesFirstIsland ==
    pc = "play" =>
        \A line \in CellLines :
            (Endpoints(line) \subseteq DOMAIN islands /\ AtCapacity(line) # {}) =>
                LET r == CanBridge(islands, bridges, line)
                    double == line \in DOMAIN bridges /\ bridges[line] = "Double"
                IN /\ r.tag = "Err"
                   /\ r.kind = "Overwrite"
                   /\ r.position =
                        IF double \/ line.start \in AtCapacity(line)
                        THEN line.start ELSE line.end

\* A third add_bridge on a Double entry was rejected at the line's start,
\* which has room for one more bridge, while the line's end is full.
OverCapacityNamesFirstIslandWitness ==
    /\ pc = "play"
    /\ last = "add_bridge"
    /\ result.tag = "Err"
    /\ result.cause = "double"
    /\ \E line \in DOMAIN bridges :
          /\ bridges[line] = "Double"
          /\ result.position = line.start
          /\ AtCapacity(line) = {line.end}

\* C14: two add_bridge calls with one line between two islands with enough
\* capacity return Single and then Double and leave one Double entry for
\* the pair; a further call fails with Overwrite at the line's start and
\* leaves the entry Double.  Both endpoint orders give the same calls.
SingleThenDouble ==
    pc \in {"play", "api"} =>
        \A a \in Cells, b \in Cells :
            LET built == BridgeLineNew(a, b)
                line == built.line
                swapped == BridgeLineNew(b, a).line
                br1 == AddBridgeMap(islands, bridges, line)
                br2 == AddBridgeMap(islands, br1, swapped)
            IN (/\ built.res.tag = "Ok"
                /\ line \notin DOMAIN bridges
                /\ {a, b} \subseteq DOMAIN islands
                /\ \A e \in {a, b} :
                      islands[e] = 0
                      \/ IncidentWeight(bridges, e) + 2 <= islands[e]
                /\ Unobstructed(line)) =>
                   /\ CanBridge(islands, bridges, line) = Ok("Single")
                   /\ CanBridge(islands, br1, swapped) = Ok("Double")
                   /\ br2 = MapInsert(bridges, line, "Double")
                   /\ {l \in DOMAIN br2 : Endpoints(l) = {a, b}} = {line}
                   /\ CanBridge(islands, br2, line).tag = "Err"
                   /\ CanBridge(islands, br2, line).kind = "Overwrite"
                   /\ CanBridge(islands, br2, line).position = line.start
                   /\ AddBridgeMap(islands, br2, swapped) = br2

\* A third add_bridge on a Double entry has just been rejected in play.
SingleThenDoubleWitness ==
    /\ pc = "play"
    /\ last = "add_bridge"
    /\ result = Err("Overwrite", result.position, "double")
    /\ \E line \in DOMAIN bridges :
          bridges[line] = "Double" /\ line.start = result.position

\* What add_island(p) must leave behind.
AddIslandPost(p) ==
    IF p.x >= width \/ p.y >= height
    THEN /\ result'.tag = "Err"
         /\ result'.kind = "OutOfBounds"
         /\ result'.position = p
         /\ UNCHANGED grid_vars
    ELSE IF p \in DOMAIN islands \/ \E l \in DOMAIN bridges : p \in SegmentCells(l)
    THEN /\ result'.tag = "Err"
         /\ result'.kind = "Overwrite"
         /\ result'.position = p
         /\ UNCHANGED grid_vars
    ELSE /\ result'.tag = "Ok"
         /\ islands' = [q \in DOMAIN islands \cup {p} |->
                            IF q = p THEN 0 ELSE islands[q]]
         /\ UNCHANGED <<width, height, bridges>>

\* C15: add_island(p) fails with OutOfBounds{p} outside the grid, else with
\* Overwrite{p} on an island or on a bridge's segment, else inserts an
\* island requiring 0 at p; nothing else changes, and a failed call changes
\* nothing.
AddIslandContract ==
    [][\A x \in 0 .. width, y \in 0 .. height :
          AddIsland(Pos(x, y)) => AddIslandPost(Pos(x, y))]_vars

\* add_island was refused outside a grid that holds a bridge.
AddIslandContractWitness ==
    /\ pc = "api"
    /\ last = "add_island"
    /\ result.tag = "Err"
    /\ result.kind = "OutOfBounds"
    /\ DOMAIN bridges # {}

\* C16: wipe_bridges returns a grid with an empty bridge map and the same
\* width, height, islands and required_bridges.
WipeKeepsIslands ==
    [][last' = "wipe_bridges" =>
          (DOMAIN bridges' = {} /\ UNCHANGED <<width, height, islands>>)]_vars

\* A grid with bridges has just been wiped.
WipeKeepsIslandsWitness ==
    /\ last = "wipe_bridges"
    /\ DOMAIN bridges = {}
    /\ Cardinality(DOMAIN solution) >= 2
    /\ \E p \in DOMAIN islands : islands[p] >= 2

\* C17: for distinct positions a, b sharing x or y, new(a, b) and new(b, a)
\* both succeed and return equal lines.
NewIsSymmetric ==
    pc \in {"made", "answered"} =>
        ((args.start # args.end
          /\ (args.start.x = args.end.x \/ args.start.y = args.end.y)) =>
            /\ made.line.res.tag = "Ok"
            /\ made.swapped.res.tag = "Ok"
            /\ made.line.line = made.swapped.line)

\* new was called on a vertical pair given bottom first.
NewIsSymmetricWitness ==
    /\ pc = "made"
    /\ args.start.x = args.end.x
    /\ args.start.y > args.end.y
    /\ made.line.res.tag = "Ok"
    /\ made.swapped.res.tag = "Ok"

\* C18: new(a, b) returns DiagonalBridge exactly when a and b share neither
\* coordinate, BridgeLengthZero exactly when a = b, and otherwise the line
\* from the smaller to the larger of a and b on the axis where they differ,
\* Down when x is shared and Right when y is shared.
NewContract ==
    pc \in {"made", "answered"} =>
        LET a == args.start
            b == args.end
            r == made.line.res
            l == made.line.line
        IN /\ (r.tag = "Err" /\ r.kind = "DiagonalBridge")
                <=> (a.x # b.x /\ a.y # b.y)
           /\ (r.tag = "Err" /\ r.kind = "BridgeLengthZero") <=> (a = b)
           /\ (a # b /\ (a.x = b.x \/ a.y = b.y)) =>
                /\ r.tag = "Ok"
                /\ {l.start, l.end} = {a, b}
                /\ a.x = b.x => (l.direction = "Down" /\ l.start.y < l.end.y)
                /\ a.y = b.y => (l.direction = "Right" /\ l.start.x < l.end.x)

\* new was called on a horizontal pair given right end first.
NewContractWitness ==
    /\ pc = "made"
    /\ args.start.y = args.end.y
    /\ args.start.x > args.end.x
    /\ made.line.res.tag = "Ok"
    /\ made.line.line.direction = "Right"

\* The crossing point the contract of intersects names, or NoPos.
CrossingPoint(l, o) ==
    LET common == SegmentCells(l) \cap SegmentCells(o)
    IN IF /\ l.direction # o.direction
          /\ Endpoints(l) \cap Endpoints(o) = {}
          /\ common # {}
       THEN CHOOSE p \in common : TRUE
       ELSE NoPos

\* C19: a.intersects(b) is Some(p) exactly when the directions differ, no
\* endpoints coincide and each line's fixed coordinate lies in the other's
\* inclusive range, p being their common cell; it is None for lines of one
\* direction; and a.intersects(b) = b.intersects(a).
IntersectsContract ==
    (pc = "answered" /\ answer.call = "intersects") =>
        /\ answer.point = CrossingPoint(made.line.line, made.other.line)
        /\ made.line.line.direction = made.other.line.direction
              => answer.point = NoPos
        /\ answer.swapped = answer.point

\* intersects returned the point where one line ends on the other's
\* segment.
IntersectsContractWitness ==
    /\ pc = "answered"
    /\ answer.call = "intersects"
    /\ answer.point # NoPos
    /\ answer.point \in Endpoints(made.other.line)

\* C20: line.crosses(p) is true exactly when p lies on the line's segment,
\* endpoints included.
CrossesContract ==
    (pc = "answered" /\ answer.call = "crosses") =>
        (answer.crossed <=> args.other_start \in SegmentCells(made.line.line))

\* crosses returned true at the end of a line.
CrossesContractWitness ==
    /\ pc = "answered"
    /\ answer.call = "crosses"
    /\ answer.crossed
    /\ args.other_start = made.line.line.end

\* C21: every island position lies inside the grid, and in a grid generate
\* returned both endpoints of every bridge do.
PositionsInBounds ==
    /\ \A p \in DOMAIN islands :
          p.x >= 0 /\ p.x < width /\ p.y >= 0 /\ p.y < height
    /\ (pc = "returned" /\ result = Ok("Grid")) =>
          \A l \in DOMAIN bridges : \A e \in Endpoints(l) :
              e.x >= 0 /\ e.x < width /\ e.y >= 0 /\ e.y < height

\* add_island was refused outside a grid that holds an island in its last
\* row and column.
PositionsInBoundsWitness ==
    /\ pc = "api"
    /\ last = "add_island"
    /\ result.tag = "Err"
    /\ result.kind = "OutOfBounds"
    /\ Pos(width - 1, height - 1) \in DOMAIN islands

\* C22: for every width and height in 1..=255 the growth loop's island
\* target is max(8, floor(width * height / 5)).
IslandTargetFormula ==
    pc = "sized" =>
        num_islands =
            (IF (width * height) \div 5 > 8 THEN (width * height) \div 5 ELSE 8)

\* The islands strictly between the endpoints of a line.
StrictlyBetween(line) ==
    (SegmentCells(line) \ Endpoints(line)) \cap DOMAIN islands

\* The points where a line intersects the bridges of the grid.
CrossingPoints(line) ==
    {CrossingPoint(line, l) : l \in DOMAIN bridges} \ {NoPos}

\* C23: for a new line between two islands add_bridge reports the first
\* violation in the order capacity at start, capacity at end, an island
\* strictly between the endpoints, an intersection with a bridge; with no
\* violation it inserts the line as Single and returns Single.
NewLineChecksInOrder ==
    pc \in {"play", "api"} =>
        \A line \in CellLines :
            (line \notin DOMAIN bridges /\ Endpoints(line) \subseteq DOMAIN islands) =>
                LET r == CanBridge(islands, bridges, line)
                    after == AddBridgeMap(islands, bridges, line)
                    overwrite == r.tag = "Err" /\ r.kind = "Overwrite"
                IN IF line.start \in AtCapacity(line)
                   THEN overwrite /\ r.position = line.start /\ after = bridges
                   ELSE IF line.end \in AtCapacity(line)
                   THEN overwrite /\ r.position = line.end /\ after = bridges
                   ELSE IF StrictlyBetween(line) # {}
                   THEN /\ overwrite
                        /\ r.position \in StrictlyBetween(line)
                        /\ after = bridges
                   ELSE IF CrossingPoints(line) # {}
                   THEN /\ overwrite
                        /\ r.position \in CrossingPoints(line)
                        /\ after = bridges
                   ELSE /\ r = Ok("Single")
                        /\ DOMAIN after = DOMAIN bridges \cup {line}
                        /\ after[line] = "Single"
                        /\ \A l \in DOMAIN bridges : after[l] = bridges[l]

\* A new line over a third island was rejected for the capacity of its
\* start.
NewLineChecksInOrderWitness ==
    /\ pc = "play"
    /\ last = "add_bridge"
    /\ result.tag = "Err"
    /\ result.cause = "capacity"
    /\ \E line \in CellLines :
          /\ line \notin DOMAIN bridges
          /\ Endpoints(line) \subseteq DOMAIN islands
          /\ result.position = line.start
          /\ line.start \in AtCapacity(line)
          /\ StrictlyBetween(line) # {}

\* The line the loop-edge pass hands to add_bridge at its current island
\* and direction, when there is a target.
LoopLine == BridgeLineNew(island_positions[loop_i], TargetIsland).line

\* The loop-edge pass is at an island and direction with a target island.
LoopAttempt ==
    pc = "loops" /\ loop_i <= Len(island_positions) /\ TargetIsland # NoPos

\* C24: the loop-edge pass only inserts new Single bridges and never changes
\* the type of a bridge, so every bridge is Single when the doubling step
\* begins.
AllSingleBeforeDoubling ==
    /\ (pc = "select" /\ double_i = 1) =>
          \A l \in DOMAIN bridges : bridges[l] = "Single"
    /\ LoopAttempt =>
          (LoopLine \in DOMAIN bridges =>
              AddBridgeMap(islands, bridges, LoopLine) = bridges)

\* C25: every add_bridge failure in the loop-edge pass is an intersection
\* with an existing bridge: never capacity, a missing endpoint, an island on
\* the path or an entry that is already Double.
LoopFailuresAreIntersections ==
    LoopAttempt =>
        LET r == CanBridge(islands, bridges, LoopLine)
        IN r.tag = "Err" =>
              /\ r.cause = "intersection"
              /\ LoopLine \notin DOMAIN bridges
              /\ CrossingPoints(LoopLine) # {}

\* C26: a growth iteration whose add_bridge fails removes the island it
\* added, so the grid is as before; at every iteration boundary every
\* island has a bridge, except the seed island while it is alone.
GrowthRollsBack ==
    [][(pc = "grow" /\ pc' = "grow") =>
          /\ bridges' = bridges => islands' = islands
          /\ Cardinality(DOMAIN islands') > 1 =>
                \A p \in DOMAIN islands' : IncidentWeight(bridges', p) >= 1]_vars

\* Some proposal of the growth loop adds an island and then fails to bridge
\* it.
RollbackProposal ==
    \E existing \in DOMAIN islands, direction \in 0 .. 3,
       u3 \in Draws(Max(width, height)) :
        /\ HasRoom(existing, direction)
        /\ LET proposed == ProposedPosition(existing, direction, u3)
           IN /\ CanAddIsland(width, height, islands, bridges, proposed).tag = "Ok"
              /\ CanBridge(MapInsert(islands, proposed, 0), bridges,
                           BridgeLineNew(existing, proposed).line).tag = "Err"

\* The growth loop is at an iteration boundary, after an iteration, where a
\* proposal is rolled back.
GrowthRollsBackWitness ==
    /\ pc = "grow"
    /\ max_remaining_iterations > 0
    /\ max_remaining_iterations < MaxAttempts - 1
    /\ Cardinality(DOMAIN islands) >= 2
    /\ RollbackProposal

\* C27: at every iteration boundary of the growth loop the bridges are a
\* spanning tree of Single bridges over the islands, and the islands of a
\* returned grid lie in one connected component.
GrowthIsSpanningTree ==
    /\ pc = "grow" =>
          /\ Cardinality(DOMAIN bridges) = Cardinality(DOMAIN islands) - 1
          /\ \A l \in DOMAIN bridges : bridges[l] = "Single"
          /\ Connected(islands, bridges)
    /\ (pc = "returned" /\ result = Ok("Grid")) => Connected(islands, bridges)

\* The growth loop is at an iteration boundary with a tree that branches.
GrowthIsSpanningTreeWitness ==
    /\ pc = "grow"
    /\ Cardinality(DOMAIN islands) >= 4
    /\ \E l1 \in DOMAIN bridges, l2 \in DOMAIN bridges :
          l1.direction # l2.direction

\* C29: every upgrade the doubling step attempts succeeds: each selected
\* line is Single when its add_bridge call runs and both its endpoints are
\* uncapped.
DoublingSucceeds ==
    /\ pc = "select" => \A p \in DOMAIN islands : islands[p] = 0
    /\ (pc = "finalize" /\ last = "doubling") =>
          /\ result = Ok("Double")
          /\ \A i \in 1 .. Len(to_double) : bridges[to_double[i]] = "Double"

\* The doubling step has upgraded two selected bridges.
DoublingSucceedsWitness ==
    /\ pc = "finalize"
    /\ last = "doubling"
    /\ Len(to_double) >= 2
    /\ to_double[1] # to_double[2]

RejectedGestureShuddersErrorPosition ==
    [][(pc = "play" /\ last' = "add_bridge" /\ result'.tag = "Err")
        => /\ UNCHANGED grid_vars
           /\ selected' = NoPos
           /\ shuddered_island' = result'.position]_vars

\* C31: when a shudder timeout fires it changes only shuddered_island and
\* selected: the bridges and time_elapsed keep the values they have at that
\* moment, so a bridge added or removed, or a timer tick, between the
\* rejection and the timeout is not undone.
TimeoutKeepsGridAndTime ==
    [][(pc = "play" /\ last' = "Timeout" /\ timeouts' # timeouts)
        => /\ bridges' = bridges
           /\ time_elapsed' = time_elapsed]_vars

\* C32: while the game state holds the placeholder grid (no islands, the
\* generation has not set its grid yet), is_complete() is false and the
\* victory overlay is not shown.
NoVictoryOnPlaceholder ==
    StateGrid = Placeholder => ~VictoryOverlayShown

\* The capacity, no-island-on-path and no-crossing conditions on a grid.
CapacityHolds(isl, br) ==
    \A p \in DOMAIN isl : isl[p] # 0 => IncidentWeight(br, p) <= isl[p]

NoIslandOnPath(isl, br) ==
    \A l \in DOMAIN br : SegmentCells(l) \cap DOMAIN isl \subseteq Endpoints(l)

NoCrossing(br) ==
    \A l1 \in DOMAIN br : \A l2 \in DOMAIN br :
        l1 # l2 => SegmentCells(l1) \cap SegmentCells(l2)
                      \subseteq Endpoints(l1) \cap Endpoints(l2)

\* C33: a removal click on a line deletes its entry when it is Single,
\* rewrites it to Single when it is Double, and does nothing when the line
\* has no entry; it leaves width, height and the island map with every
\* required_bridges as they were, and a grid that satisfied the capacity,
\* no-island-on-path and no-crossing conditions satisfies them afterwards.
RemovalClickContract ==
    /\ [](pc = "play" =>
            \A key \in CellLines \ DOMAIN bridges :
                RemovedBridge(bridges, key) = bridges)
    /\ [][(pc = "play" /\ last' = "remove_bridge")
            => /\ UNCHANGED <<width, height, islands>>
               /\ \E key \in DOMAIN bridges :
                     \/ /\ bridges[key] = "Single"
                        /\ bridges' = [l \in DOMAIN bridges \ {key} |-> bridges[l]]
                     \/ /\ bridges[key] = "Double"
                        /\ bridges' = [l \in DOMAIN bridges |->
                                          IF l = key THEN "Single" ELSE bridges[l]]
               /\ CapacityHolds(islands, bridges) => CapacityHolds(islands', bridges')
               /\ NoIslandOnPath(islands, bridges) => NoIslandOnPath(islands', bridges')
               /\ NoCrossing(bridges) => NoCrossing(bridges')]_vars

\* A removal click downgraded the Double bridge of a two-island puzzle.
RemovalClickContractWitness ==
    /\ pc = "play"
    /\ last = "remove_bridge"
    /\ Cardinality(DOMAIN islands) = 2
    /\ \E l \in DOMAIN bridges : bridges[l] = "Single"

\* C34: in play, for every line add_bridge accepts, one removal click on
\* that line after the add_bridge gives back exactly the bridge map there
\* was before it (absent -> Single -> absent, Single -> Double -> Single),
\* and add_bridge accepts the line again on the restored grid.
AddThenRemoveRestores ==
    pc = "play" =>
        \A line \in CellLines :
            CanBridge(islands, bridges, line).tag = "Ok" =>
                LET added == AddBridgeMap(islands, bridges, line)
                    restored == RemovedBridge(added, line)
                IN /\ added # bridges
                   /\ restored = bridges
                   /\ CanBridge(islands, restored, line).tag = "Ok"

\* In a two-island puzzle the bridge the player added was clicked away and
\* the line is accepted again.
AddThenRemoveRestoresWitness ==
    /\ pc = "play"
    /\ last = "remove_bridge"
    /\ Cardinality(DOMAIN islands) = 2
    /\ bridges = EmptyMap
    /\ \E line \in CellLines : CanBridge(islands, bridges, line).tag = "Ok"

\* C35: in every reachable state (during generation with its rollback,
\* and after any add_island, add_bridge, removal click and wipe_bridges)
\* both endpoints of every bridge are keys of the island map, so the unwrap
\* of the endpoint island in the upgrade branch of can_bridge never panics.
BridgeEndpointsAreIslands ==
    /\ \A l \in DOMAIN bridges : Endpoints(l) \subseteq DOMAIN islands
    /\ result.cause # "unwrap"
    /\ pc \in {"play", "api"} =>
          \A line \in CellLines :
              CanBridge(islands, bridges, line).tag # "Panic"

\* add_bridge took the upgrade branch on a grid built call by call and
\* returned Double.
BridgeEndpointsAreIslandsWitness ==
    /\ pc = "api"
    /\ last = "add_bridge"
    /\ result.tag = "Ok"
    /\ result.kind = "Double"
    /\ \E l \in DOMAIN bridges : bridges[l] = "Double"

\* The bridges that leave island p in one of the four directions: a line
\* runs Right or Down from its start, and Left or Up from its end.
BridgesLeaving(br, p, d) ==
    {l \in DOMAIN br :
        \/ d = "Right" /\ l.start = p /\ l.direction = "Right"
        \/ d = "Down" /\ l.start = p /\ l.direction = "Down"
        \/ d = "Left" /\ l.end = p /\ l.direction = "Right"
        \/ d = "Up" /\ l.end = p /\ l.direction = "Down"}

\* C36: in every reachable state each island has at most one incident
\* bridge per direction, so its incident weight is at most 8 and the u8
\* computations on it (existing_bridges + 1 in the capacity check, the sum
\* per island of the finalization step and of is_complete) stay below 256.
OneBridgePerDirection ==
    \A p \in DOMAIN islands :
        /\ \A d \in {"Up", "Down", "Left", "Right"} :
              Cardinality(BridgesLeaving(bridges, p, d)) <= 1
        /\ IncidentWeight(bridges, p) <= 8
        /\ CountBridgesEndingAt(bridges, p) + 1 < U8Modulus
        /\ SumWeights(bridges, BridgeKeys(bridges), p) < U8Modulus

\* An island carries two Double bridges, in two directions.
OneBridgePerDirectionWitness ==
    \E p \in DOMAIN islands :
        /\ IncidentWeight(bridges, p) = 4
        /\ Cardinality({d \in {"Up", "Down", "Left", "Right"} :
                            BridgesLeaving(bridges, p, d) # {}}) = 2

\* C37: an add_bridge call that returns Ok changes only the entry of its
\* line in the bridge map (absent -> Single, or Single -> Double): width,
\* height, the island map with every required_bridges and every other
\* bridge entry stay as they were.  And required_bridges is written only
\* by add_island, which creates it as 0, and by the finalization step of
\* the generator.
AddBridgeFrame ==
    /\ [][(last' = "add_bridge" /\ result'.tag = "Ok")
            => /\ UNCHANGED <<width, height, islands>>
               /\ \E line \in CellLines :
                     /\ \/ /\ line \notin DOMAIN bridges
                           /\ result'.kind = "Single"
                        \/ /\ line \in DOMAIN bridges
                           /\ bridges[line] = "Single"
                           /\ result'.kind = "Double"
                     /\ DOMAIN bridges' = DOMAIN bridges \cup {line}
                     /\ bridges'[line] = result'.kind
                     /\ \A l \in DOMAIN bridges \ {line} :
                           bridges'[l] = bridges[l]]_vars
    /\ [][\A p \in DOMAIN islands' :
              /\ p \notin DOMAIN islands => islands'[p] = 0
              /\ (p \in DOMAIN islands /\ islands'[p] # islands[p])
                    => (pc = "finalize" /\ pc' = "returned")]_vars

\* add_bridge returned Ok on a grid that holds another bridge as well.
AddBridgeFrameWitness ==
    /\ pc = "api"
    /\ last = "add_bridge"
    /\ result.tag = "Ok"
    /\ Cardinality(DOMAIN bridges) >= 2

\* The ids of the islands of main.rs, and the ids joined to a set of ids by
\* a path of bridges.
MainIds == {main_islands[n].id : n \in 1 .. Len(main_islands)}

RECURSIVE MainReachable(_, _)
MainReachable(S, br) ==
    LET more == S \cup {k[1] : k \in {j \in DOMAIN br : j[2] \in S}}
                  \cup {k[2] : k \in {j \in DOMAIN br : j[1] \in S}}
    IN IF more = S THEN S ELSE MainReachable(more, br)

\* The bridge count at an island, counted key by key.
MainWeight(br, id) ==
    Cardinality({k \in DOMAIN br : id \in {k[1], k[2]}})
    + Cardinality({k \in DOMAIN br : id \in {k[1], k[2]} /\ br[k] = 2})

\* C38: is_complete of main.rs is true exactly when the island list is not
\* empty, every island's bridge count equals its required value, and every
\* island is reachable from the first island over the bridges; whatever the
\* order the key set is iterated in, the traversal of is_connected ends
\* having visited exactly the connected component of the first island.
MainIsCompleteMeaning ==
    pc = "main" =>
        \A order \in KeyOrders(main_bridges) :
            /\ is_complete(main_islands, main_bridges, order)
                  <=> /\ main_islands # <<>>
                      /\ \A id \in MainIds :
                            MainWeight(main_bridges, id)
                                = island(main_islands, id).required
                      /\ MainReachable({main_islands[1].id}, main_bridges)
                            = MainIds
            /\ main_islands # <<>> =>
                  Visited(<<main_islands[1].id>>, {}, order)
                      = MainReachable({main_islands[1].id}, main_bridges)

\* Every island carries its required bridges and the islands are in two
\* components: is_complete is false for want of connection alone.
MainIsCompleteMeaningWitness ==
    /\ pc = "main"
    /\ Cardinality(DOMAIN main_bridges) = 2
    /\ \A id \in MainIds :
          MainWeight(main_bridges, id) = island(main_islands, id).required
    /\ MainReachable({main_islands[1].id}, main_bridges) # MainIds
    /\ \A order \in KeyOrders(main_bridges) :
          ~is_complete(main_islands, main_bridges, order)

\* The bridge map of a HashiGrid and the count map of main.rs hold the same
\* bridges: count 1 for Single, count 2 for Double.
InCorrespondence ==
    /\ DOMAIN bridges = {LineOf(main_islands, k).line : k \in DOMAIN main_bridges}
    /\ \A k \in DOMAIN main_bridges :
          /\ LineOf(main_islands, k).res.tag = "Ok"
          /\ main_bridges[k] = Weight(bridges[LineOf(main_islands, k).line])

\* C39: on one island layout with every required value nonzero, and after
\* the same clicks from an empty bridge set, can_add_bridge(a, b) of
\* main.rs is true exactly when BridgeLine::new(a, b) is a line and
\* add_bridge of hashi.rs accepts it, and the two bridge sets are in
\* correspondence (count 1 = Single, count 2 = Double).
MainAgreesWithHashi ==
    (pc = "main" /\ \A p \in DOMAIN islands : islands[p] # 0) =>
        /\ InCorrespondence
        /\ \A a \in MainIds : \A b \in MainIds \ {a} :
              can_add_bridge(main_islands, main_bridges, a, b)
                  <=> /\ LineOf(main_islands, <<a, b>>).res.tag = "Ok"
                      /\ CanBridge(islands, bridges,
                                   LineOf(main_islands, <<a, b>>).line).tag = "Ok"

\* Both rejected a gesture whose line would cross a bridge of the grid,
\* with room left at both islands and no island between them.
MainAgreesWithHashiWitness ==
    /\ pc = "main"
    /\ last = "add_bridge"
    /\ result.tag = "Err"
    /\ result.cause = "intersection"
    /\ main_shuddered_island # NoId
    /\ InCorrespondence

====
